---- MODULE Spec2Model ----
(***************************************************************************)
(* Model of the CONU engine's element-locator core:                        *)
(*   - OCRCache            (engine/cache/ocr_cache.py)                     *)
(*   - RegionManager       (engine/core/regions.py)                        *)
(*   - HybridLocator       (engine/locators/hybrid_locator.py)             *)
(*   - IconLocator         (engine/locators/icon_locator.py)               *)
(*   - OCRLocator          (engine/locators/ocr_locator.py)                *)
(*   - retry wrapper       (engine/utils/retry.py)                         *)
(*   - /ws/run task runner (engine/api/websocket/task_runner.py)           *)
(* The OCR engine and the vision service are external: their replies are   *)
(* drawn from small sets.  Optional values are modelled as sequences of    *)
(* length 0 (None) or 1.                                                   *)
(***************************************************************************)
EXTENDS Integers, Sequences, FiniteSets, TLC

VARIABLES
    \* OCRCache
    cache,          \* OrderedDict: sequence of entries, oldest first
    hits,
    misses,
    useOrder,       \* history: cached digests by last use (get hit / put), oldest first
    evicted,        \* history: the last cache operation was a put that dropped an entry
    got_entry,      \* history: get calls that returned an entry since construction / clear
    got_none,       \* history: get calls that returned None since construction / clear
    cleared,        \* history: the last cache operation was clear
    \* RegionManager
    custom_regions,
    window_regions,
    \* HybridLocator
    stats,
    pc,             \* position inside HybridLocator.locate
    args,           \* arguments of the running locate call
    result,         \* local variable `result`
    all_suggestions,\* local variable `all_suggestions`
    calls,          \* history: stages invoked by the running call, in order
    ret,            \* what the call handed back to its caller
    \* retry wrapper (with_retry / retry_call)
    rpc,            \* position inside the wrapper
    rcall,          \* the running call: entry point, callable's name, config
    attempt,        \* loop variable `attempt`
    delay,          \* local variable `delay`
    last_exception, \* local variable `last_exception`
    invoked,        \* history: what each invocation of the callable did, in order
    sleeps,         \* history: the durations passed to time.sleep, in order
    routcome,       \* how the wrapper ended
    \* RegionManager with coordinates
    custom_map,     \* custom_regions: name -> coords
    window_map,     \* _window_regions: name -> coords
    screen_size,    \* _screen_size
    last_detect,    \* history: how the most recent update_for_active_window ended
    rop,            \* history: the last RegionManager call and what it gave back
    \* IconLocator.locate
    ireq,           \* what the vision service does for the call
    iret,           \* how locate ended
    \* BoundingBox.expand / clamp
    box_in,         \* the box, the padding and the image size
    box_out,        \* expand(padding).clamp(width, height)
    \* disambiguation seen from the vision reply
    pick_in,        \* the candidates of the text stage and the vision reply
    pick_out,       \* the chosen candidate and the text stage's result after it
    \* IconLocator.locate geometry
    grid_in,        \* the image, the region, the selector, the keywords and the replied cell
    grid_out,       \* the crop, the offsets and the result of locate
    \* /ws/run task runner
    ws,             \* the session: its position, the plan and the loop's locals
    ws_events,      \* history: the events sent to the client, in order
    \* OCRLocator.locate matching
    match_in,       \* the OCR data, the fuzzy flag of one locate call
    match_out,      \* the LocatorResult of that call
    \* OCRLocator.locate with its cache
    ocr_last,       \* history: the last OCRLocator.locate call and how it ended
    ocr_count       \* history: locate calls so far

cacheVars == <<cache, hits, misses, useOrder, evicted, got_entry, got_none, cleared>>
regionVars == <<custom_regions, window_regions>>
hybridVars == <<stats, pc, args, result, all_suggestions, calls, ret>>
retryVars == <<rpc, rcall, attempt, delay, last_exception, invoked, sleeps, routcome>>
geomVars == <<custom_map, window_map, screen_size, last_detect, rop>>
iconVars == <<ireq, iret>>
boxVars == <<box_in, box_out>>
pickVars == <<pick_in, pick_out>>
gridVars == <<grid_in, grid_out>>
wsVars == <<ws, ws_events>>
matchVars == <<match_in, match_out>>
ocrVars == <<ocr_last, ocr_count>>
utilVars == <<retryVars, geomVars, iconVars, boxVars, pickVars, gridVars, wsVars, matchVars, ocrVars>>
retryOthers == <<cacheVars, regionVars, hybridVars, geomVars, iconVars, boxVars, pickVars, gridVars, wsVars, matchVars, ocrVars>>
geomOthers == <<cacheVars, hybridVars, retryVars, iconVars, boxVars, pickVars, gridVars, wsVars, matchVars, ocrVars>>
iconOthers == <<cacheVars, regionVars, hybridVars, retryVars, geomVars, boxVars, pickVars, gridVars, wsVars, matchVars, ocrVars>>
boxOthers == <<cacheVars, regionVars, hybridVars, retryVars, geomVars, iconVars, pickVars, gridVars, wsVars, matchVars, ocrVars>>
pickOthers == <<cacheVars, regionVars, retryVars, geomVars, iconVars, boxVars, gridVars, wsVars, matchVars, ocrVars>>
gridOthers == <<cacheVars, regionVars, hybridVars, retryVars, geomVars, iconVars, boxVars, pickVars, wsVars, matchVars, ocrVars>>
wsOthers == <<cacheVars, regionVars, hybridVars, retryVars, geomVars, iconVars, boxVars, pickVars, gridVars, matchVars, ocrVars>>
matchOthers == <<cacheVars, regionVars, hybridVars, retryVars, geomVars, iconVars, boxVars, pickVars, gridVars, wsVars, ocrVars>>
ocrOthers == <<regionVars, hybridVars, retryVars, geomVars, iconVars, boxVars, pickVars, gridVars, wsVars, matchVars>>
vars == <<cache, hits, misses, useOrder, evicted, got_entry, got_none, cleared,
          custom_regions, window_regions,
          stats, pc, args, result, all_suggestions, calls, ret,
          rpc, rcall, attempt, delay, last_exception, invoked, sleeps, routcome,
          custom_map, window_map, screen_size, last_detect, rop,
          ireq, iret, box_in, box_out, pick_in, pick_out,
          grid_in, grid_out,
          ws, ws_events,
          match_in, match_out,
          ocr_last, ocr_count>>

----------------------------------------------------------------------------
(* Bounds *)
NumThumbs == 4      \* distinct 16x16 thumbnails
NumDetails == 2     \* images sharing one thumbnail
MaxGets == 2        \* cap on hits + misses between clears
max_size == 3       \* OCRCache(max_size=...)
MaxMatches == 2     \* candidates one text stage can return
MaxY == 1           \* vertical positions of a candidate
MaxDigits == 2      \* digits in one vision reply
MaxStat == 1        \* cap on locator attempts counted between resets
MaxAttempts == 3    \* largest RetryConfig.max_attempts
MaxDelay == 3       \* largest base_delay / max_delay, in delay units
MaxExpBase == 2     \* largest exponential_base
MaxScreen == 4      \* screen and window extents, in hundreds of pixels
MaxCoord == 3       \* largest box coordinate and image extent
MaxPad == 2         \* largest padding
MaxSteps == 2       \* steps of a generated plan
MaxStepNum == 4     \* cap on the iterations of the step loop
MaxFragments == 3   \* text fragments in the OCR data of one crop
MaxLocates == 5     \* OCRLocator.locate calls in one run

(* Program constants *)
max_retries == 3

----------------------------------------------------------------------------
(* Generic helpers *)
None == <<>>
Some(x) == <<x>>

Range(s) == {s[i] : i \in 1..Len(s)}

SeqsUpTo(S, n) == UNION {[1..k -> S] : k \in 0..n}

\* every ordering of a finite set: the orders list(set(...)) can produce
Perms(S) == {s \in [1..Cardinality(S) -> S] : Range(s) = S}

RemoveAt(s, i) == SubSeq(s, 1, i - 1) \o SubSeq(s, i + 1, Len(s))

IndexOf(s, x) == CHOOSE i \in 1..Len(s) : s[i] = x

----------------------------------------------------------------------------
(* OCRCache *)

\* an image is a 16x16 grayscale thumbnail plus detail the thumbnail loses
Images == (1..NumThumbs) \X (1..NumDetails)

\* _compute_hash: the digest is a function of the thumbnail's bytes only
_compute_hash(img) == img[1]

OCRCacheEntry(h, data) == [image_hash |-> h, ocr_data |-> data]

Keys(c) == {c[i].image_hash : i \in 1..Len(c)}

KeyIndex(c, h) == CHOOSE i \in 1..Len(c) : c[i].image_hash = h

\* OrderedDict.move_to_end(key)
move_to_end(c, h) == RemoveAt(c, KeyIndex(c, h)) \o <<c[KeyIndex(c, h)]>>

\* OrderedDict.popitem(last=False)
popitem_first(c) == Tail(c)

\* OrderedDict.__setitem__: an existing key keeps its position
setitem(c, h, e) ==
    IF h \in Keys(c) THEN [c EXCEPT ![KeyIndex(c, h)] = e] ELSE Append(c, e)

AtCapacityOffByOne(c) == Len(c) > max_size

\* put's capacity test before inserting
AtCapacity(c) == Len(c) >= max_size

\* the cache content after put(img, data)
PutCache(c, h, data) ==
    setitem(IF AtCapacity(c) THEN popitem_first(c) ELSE c, h, OCRCacheEntry(h, data))

\* recency bookkeeping: digest h was just used, digests outside `kept` are gone
Touch(order, h, kept) ==
    LET rest == SelectSeq(order, LAMBDA d : d # h /\ d \in kept)
    IN  Append(rest, h)

\* OCR payloads stored in entries (opaque to the cache)
Payloads == {"ocr data 1", "ocr data 2"}

InCacheNever(c, h) == FALSE

\* get's test `if img_hash in self._cache`
InCache(c, h) == h \in Keys(c)

\* what get returns: the cached entry, or None
GetReturn(c, h) == IF h \in Keys(c) THEN Some(c[KeyIndex(c, h)]) ELSE None

CacheGet(img) ==
    LET h == _compute_hash(img) IN
    /\ hits + misses < MaxGets
    /\ IF InCache(cache, h)
          THEN /\ hits' = hits + 1
               /\ cache' = move_to_end(cache, h)
               /\ useOrder' = Touch(useOrder, h, Keys(cache))
               /\ UNCHANGED misses
          ELSE /\ misses' = misses + 1
               /\ UNCHANGED <<hits, cache, useOrder>>
    /\ IF GetReturn(cache, h) # None
          THEN got_entry' = got_entry + 1 /\ UNCHANGED got_none
          ELSE got_none' = got_none + 1 /\ UNCHANGED got_entry
    /\ evicted' = FALSE
    /\ cleared' = FALSE
    /\ UNCHANGED <<regionVars, hybridVars, utilVars>>

CachePut(img, data) ==
    LET h == _compute_hash(img) IN
    /\ cache' = PutCache(cache, h, data)
    /\ useOrder' = Touch(useOrder, h, Keys(cache'))
    /\ evicted' = (Keys(cache) \ Keys(cache') # {})
    /\ cleared' = FALSE
    /\ UNCHANGED <<hits, misses, got_entry, got_none, regionVars, hybridVars, utilVars>>

CacheClear ==
    /\ cache' = <<>>
    /\ hits' = 0
    /\ misses' = 0
    /\ useOrder' = <<>>
    /\ evicted' = FALSE
    /\ got_entry' = 0
    /\ got_none' = 0
    /\ cleared' = TRUE
    /\ UNCHANGED <<regionVars, hybridVars, utilVars>>

\* the stats property; hit_rate is kept as the fraction num / den
CacheStats ==
    LET total == hits + misses IN
    [size |-> Len(cache), max_size |-> max_size, hits |-> hits, misses |-> misses,
     hit_rate |-> IF total > 0 THEN [num |-> hits, den |-> total]
                  ELSE [num |-> 0, den |-> 1]]

CacheNext ==
    \/ \E img \in Images : CacheGet(img)
    \/ \E img \in Images, data \in Payloads : CachePut(img, data)
    \/ CacheClear

----------------------------------------------------------------------------
(* RegionManager *)

\* keys of the default table REGIONS
REGIONS == {"menu_bar", "toolbar", "sidebar", "main", "bottom", "dock", "full",
            "center", "top_half", "bottom_half", "left_half", "right_half"}

\* keys returned by get_window_relative_regions for a detected window
WindowRegionNames == {"window", "sidebar", "main", "toolbar", "menu_bar", "dock", "full"}

\* names a caller adds as custom regions
CustomNames == {"window"}

\* region arguments passed to locate
RegionArgs == {"full", "window", "sidebar", "bogus"}

\* RegionManager.list_regions
list_regions == REGIONS \cup custom_regions

\* RegionManager.get succeeds (does not raise InvalidRegionError)
RegionKnown(name) ==
    name \in custom_regions \/ name \in window_regions \/ name \in REGIONS

\* update_for_active_window: `bounds` tells whether window bounds were obtained
update_for_active_window(bounds) ==
    /\ pc = "idle"
    /\ window_regions' = IF bounds THEN WindowRegionNames ELSE window_regions
    /\ UNCHANGED <<custom_regions, cacheVars, hybridVars, utilVars>>

RegionAdd(name) ==
    /\ pc = "idle"
    /\ custom_regions' = custom_regions \cup {name}
    /\ UNCHANGED <<window_regions, cacheVars, hybridVars, utilVars>>

RegionRemove(name) ==
    /\ pc = "idle"
    /\ name \in custom_regions
    /\ custom_regions' = custom_regions \ {name}
    /\ UNCHANGED <<window_regions, cacheVars, hybridVars, utilVars>>

----------------------------------------------------------------------------
(* LocatorResult and the results the sub-locators build *)

\* LocatorResult.not_found(suggestions)
not_found(sugs) ==
    [found |-> FALSE, element |-> None, bbox |-> None, confidence |-> 0,
     method |-> "None", suggestions |-> sugs, all_matches |-> <<>>]

BBox(k, y) == [k |-> k, y1 |-> y]

\* a ranked candidate of the Text Locator; k is its rank by weighted score
Match(k, y) == [text |-> k, bbox |-> BBox(k, y), confidence |-> 100 - 10 * k]

\* the ranked candidate lists a text stage can attach to a found result
MatchLists ==
    UNION {{[i \in 1..n |-> Match(i, ys[i])] : ys \in [1..n -> 0..MaxY]} : n \in 1..MaxMatches}

\* OCRLocator.locate, found branch
OcrFound(ms) ==
    [found |-> TRUE, element |-> Some(ms[1].text), bbox |-> Some(ms[1].bbox),
     confidence |-> ms[1].confidence, method |-> "ocr", suggestions |-> <<>>,
     all_matches |-> ms]

\* OCRLocator.locate, not-found branch
OcrNotFound(sugs) ==
    [found |-> FALSE, element |-> None, bbox |-> None, confidence |-> 0,
     method |-> "ocr", suggestions |-> sugs, all_matches |-> <<>>]

OcrSuggestionLists == {<<>>, <<"Settings">>, <<"System">>}

\* everything OCRLocator.locate can return
OcrReturns == {OcrFound(ms) : ms \in MatchLists} \cup {OcrNotFound(sg) : sg \in OcrSuggestionLists}

\* IconLocator.locate, found branch
IconFound ==
    [found |-> TRUE, element |-> Some(0), bbox |-> Some(BBox(0, 0)), confidence |-> 90,
     method |-> "icon", suggestions |-> <<>>, all_matches |-> <<>>]

\* IconLocator.locate, the three not-found branches
IconNotFound(sug) ==
    [found |-> FALSE, element |-> None, bbox |-> None, confidence |-> 0,
     method |-> "icon", suggestions |-> <<sug>>, all_matches |-> <<>>]

IconDiagnostics == {"Gemini API error", "Invalid cell", "Icon not found"}

IconReturns == {IconFound} \cup {IconNotFound(d) : d \in IconDiagnostics}

----------------------------------------------------------------------------
(* Retry wrapper as used by the orchestrator *)

\* with_retry: raises[i] tells whether attempt i raises; a returning attempt
\* returns r.  The wrapper returns at the first attempt that does not raise and
\* raises RetryExhaustedError when all max_attempts attempts raise.
with_retry(raises, r, max_attempts) ==
    IF \E i \in 1..max_attempts : ~raises[i]
       THEN [raised |-> FALSE, value |-> Some(r)]
       ELSE [raised |-> TRUE, value |-> None]

RaisePatterns == [1..max_retries -> BOOLEAN]

\* what the retried self.ocr.locate call can end with; an unknown region makes
\* crop_image raise InvalidRegionError on every attempt
OcrOutcomes(known) ==
    {o \in {with_retry(raises, r, max_retries) : raises \in RaisePatterns, r \in OcrReturns} :
        known \/ o.raised}

\* what the retried self.icon.locate call can end with
IconOutcomes ==
    {with_retry(raises, r, max_retries) : raises \in RaisePatterns, r \in IconReturns}

\* _try_ocr / _try_icon: any exception becomes LocatorResult.not_found()
TryResult(outcome) ==
    IF outcome.raised THEN not_found(<<>>) ELSE outcome.value[1]

----------------------------------------------------------------------------
(* HybridLocator: disambiguation *)

StatKeys == {"ocr_attempts", "ocr_successes", "icon_attempts", "icon_successes",
             "fallbacks", "verifications"}

\* the keys reset_stats puts back
ResetKeys == {"ocr_attempts", "ocr_successes", "icon_attempts", "icon_successes",
              "fallbacks"}

Bump(st, key) == [st EXCEPT ![key] = @ + 1]

\* a vision-service reply: err = the call raised; yes = the text contains YES;
\* digits = the digit characters of the text, in order
\* (a YES/NO question is asked about one candidate, a number about several)
VisionReplies(n) ==
    IF n = 1
       THEN [err : BOOLEAN, yes : BOOLEAN, digits : {<<>>}]
       ELSE [err : BOOLEAN, yes : {FALSE}, digits : SeqsUpTo(0..(MaxMatches + 1), MaxDigits)]

\* self._stats["verifications"] += 1 raises KeyError when the key is missing
CountsVerification(reply, st) == ~reply.err /\ "verifications" \in DOMAIN st

StatsAfterVerify(reply, st) ==
    IF CountsVerification(reply, st) THEN Bump(st, "verifications") ELSE st

\* _verify_single_match: any exception inside the try means "assume correct"
_verify_single_match(reply, st) ==
    IF CountsVerification(reply, st) THEN reply.yes ELSE TRUE

\* sorted(matches, key=y1): stable insertion
RECURSIVE InsertByY(_, _)
InsertByY(sorted, m) ==
    IF sorted = <<>> THEN <<m>>
    ELSE IF Head(sorted).bbox.y1 <= m.bbox.y1
         THEN <<Head(sorted)>> \o InsertByY(Tail(sorted), m)
         ELSE <<m>> \o sorted

RECURSIVE SortByY(_)
SortByY(ms) ==
    IF ms = <<>> THEN <<>>
    ELSE InsertByY(SortByY(SubSeq(ms, 1, Len(ms) - 1)), ms[Len(ms)])

\* the loop over the characters of the answer
RECURSIVE FirstDigitChoice(_, _)
FirstDigitChoice(sorted, digits) ==
    IF digits = <<>> THEN Some(sorted[1])
    ELSE IF Head(digits) = 0 THEN None
    ELSE IF Head(digits) <= Len(sorted) THEN Some(sorted[Head(digits)])
    ELSE FirstDigitChoice(sorted, Tail(digits))

\* _pick_best_match: None, or Some(the chosen match)
_pick_best_match(matches, reply, st) ==
    IF Len(matches) = 1
       THEN IF _verify_single_match(reply, st) THEN Some(matches[1]) ELSE None
    ELSE IF CountsVerification(reply, st)
       THEN FirstDigitChoice(SortByY(matches), reply.digits)
    ELSE Some(matches[1])

\* the choices and counter updates the vision service's replies can lead to
PickOutcomes(matches, st) ==
    {[best |-> _pick_best_match(matches, reply, st), stats |-> StatsAfterVerify(reply, st)] :
        reply \in VisionReplies(Len(matches))}

----------------------------------------------------------------------------
(* HybridLocator.locate *)

Instructions == {"", "open settings"}

ContextMismatch == "Found text but not in correct context"

NeedsDisambiguationOnlyIfSeveral(res, instruction) ==
    Len(res.all_matches) >= 2 /\ instruction # ""

\* `if len(all_matches) >= 1 and instruction`
NeedsDisambiguation(res, instruction) ==
    Len(res.all_matches) >= 1 /\ instruction # ""

\* best_match is None
Reject(res) == [res EXCEPT !.found = FALSE, !.suggestions = <<ContextMismatch>>]

PromoteWithoutBox(res, best) ==
    [res EXCEPT !.bbox = None, !.element = Some(best.text),
                !.confidence = best.confidence]

\* best_match chosen
Promote(res, best) ==
    [res EXCEPT !.bbox = Some(best.bbox), !.element = Some(best.text),
                !.confidence = best.confidence]

ConfirmKeepsMethod(res) == res

\* result.method = LocatorMethod.HYBRID before a found result is returned
Confirm(res) == [res EXCEPT !.method = "hybrid"]

NeedsFallbackExceptFull(region) == region # "full"

\* `if region != "full" and region != "window"`
NeedsFallback(region) == region # "full" /\ region # "window"

fallback_region == IF "window" \in list_regions THEN "window" ELSE "full"

\* the fresh not-found result built at the end of locate
FinalResult(sugs) ==
    [found |-> FALSE, element |-> None, bbox |-> None, confidence |-> 0,
     method |-> "hybrid", suggestions |-> sugs, all_matches |-> <<>>]

ShouldRaiseAlways(raise_on_not_found) == TRUE

\* `if raise_on_not_found: raise ElementNotFoundError(...)`
ShouldRaise(raise_on_not_found) == raise_on_not_found

NoRet == [kind |-> "none", result |-> not_found(<<>>)]

\* what the history keeps of a result a stage produced
Summary(res) ==
    [found |-> res.found, boxed |-> res.bbox # None, method |-> res.method,
     suggestions |-> res.suggestions, candidates |-> Len(res.all_matches)]

\* the caller's quad keyword: absent, or a quadrant
LocateQuads == {"none", "2"}

\* self._pick_best_match(img, all_matches, target, instruction)
PickArgs(a) == [instruction |-> a.instruction, quad |-> "none"]

\* the **kwargs of locate, which _try_ocr and _try_icon pass on: `instruction`
\* is a named parameter of locate and so is not among them; the sub-locator's
\* own default "" stands in
Kwargs(a) == [instruction |-> "", quad |-> a.quad]

Call(stage, region, raised, out) ==
    [stage |-> stage, region |-> region, raised |-> raised, out |-> Summary(out),
     received |-> IF stage = "pick" THEN PickArgs(args) ELSE Kwargs(args)]

Locate(region, is_icon, raise_on_not_found, instruction, quad) ==
    /\ pc = "idle"
    /\ stats["ocr_attempts"] + stats["icon_attempts"] < MaxStat
    /\ args' = [region |-> region, is_icon |-> is_icon,
                raise_on_not_found |-> raise_on_not_found, instruction |-> instruction,
                quad |-> quad]
    /\ all_suggestions' = <<>>
    /\ calls' = <<>>
    /\ ret' = NoRet
    /\ result' = not_found(<<>>)
    /\ pc' = IF is_icon THEN "icon" ELSE "ocr1"
    /\ UNCHANGED <<stats, cacheVars, regionVars, utilVars>>

StageRegion(n) == IF n = 1 THEN args.region ELSE fallback_region

StagePc(kind, n) ==
    IF kind = "ocr" THEN (IF n = 1 THEN "ocr1" ELSE "ocr2")
    ELSE (IF n = 1 THEN "pick1" ELSE "pick2")

\* where locate goes after text stage n ended without a confirmed match
AfterText(n) == IF n = 1 /\ NeedsFallback(args.region) THEN "ocr2" ELSE "icon"

\* text stage n: _try_ocr and the branch on its result
TryOcr(n) ==
    /\ pc = StagePc("ocr", n)
    /\ \E outcome \in OcrOutcomes(RegionKnown(StageRegion(n))) :
         /\ LET res == TryResult(outcome)
                st1 == Bump(stats, "ocr_attempts")
            IN  /\ stats' = IF res.found THEN Bump(st1, "ocr_successes") ELSE st1
                /\ calls' = Append(calls, Call("ocr", StageRegion(n), outcome.raised, res))
                /\ IF res.found
                      THEN IF NeedsDisambiguation(res, args.instruction)
                              THEN /\ result' = res
                                   /\ pc' = StagePc("pick", n)
                                   /\ UNCHANGED <<ret, all_suggestions>>
                              ELSE /\ result' = Confirm(res)
                                   /\ ret' = [kind |-> "returned", result |-> Confirm(res)]
                                   /\ pc' = "done"
                                   /\ UNCHANGED all_suggestions
                      ELSE /\ result' = res
                           /\ all_suggestions' = all_suggestions \o res.suggestions
                           /\ pc' = AfterText(n)
                           /\ UNCHANGED ret
    /\ UNCHANGED <<args, cacheVars, regionVars, utilVars>>

\* disambiguation after text stage n
PickBestMatch(n) ==
    /\ pc = StagePc("pick", n)
    /\ \E picked \in PickOutcomes(result.all_matches, stats) :
         LET best == picked.best
             res == IF best = None THEN Reject(result)
                    ELSE Confirm(Promote(result, best[1]))
         IN  /\ stats' = picked.stats
             /\ calls' = Append(calls, Call("pick", StageRegion(n), FALSE, res))
             /\ result' = res
             /\ IF res.found
                   THEN /\ ret' = [kind |-> "returned", result |-> res]
                        /\ pc' = "done"
                        /\ UNCHANGED all_suggestions
                   ELSE /\ all_suggestions' = all_suggestions \o res.suggestions
                        /\ pc' = AfterText(n)
                        /\ UNCHANGED ret
    /\ UNCHANGED <<args, cacheVars, regionVars, utilVars>>

\* icon stage and the end of locate
TryIcon ==
    /\ pc = "icon"
    /\ \E outcome \in IconOutcomes :
         LET res == TryResult(outcome)
             st1 == Bump(Bump(stats, "fallbacks"), "icon_attempts")
             sugs == all_suggestions \o res.suggestions
         IN  /\ stats' = IF res.found THEN Bump(st1, "icon_successes") ELSE st1
             /\ calls' = Append(calls, Call("icon", args.region, outcome.raised, res))
             /\ IF res.found
                   THEN /\ result' = Confirm(res)
                        /\ ret' = [kind |-> "returned", result |-> Confirm(res)]
                        /\ UNCHANGED all_suggestions
                   ELSE /\ all_suggestions' = sugs
                        /\ result' = res
                        /\ \E deduped \in Perms(Range(sugs)) :
                             ret' = [kind |-> IF ShouldRaise(args.raise_on_not_found)
                                              THEN "raised" ELSE "returned",
                                     result |-> FinalResult(deduped)]
    /\ pc' = "done"
    /\ UNCHANGED <<args, cacheVars, regionVars, utilVars>>

NoArgs == [region |-> "full", is_icon |-> FALSE, raise_on_not_found |-> FALSE,
           instruction |-> "", quad |-> "none"]

\* the caller takes the result or the exception; the call's locals are gone
LocateEnd ==
    /\ pc = "done"
    /\ pc' = "idle"
    /\ args' = NoArgs
    /\ result' = not_found(<<>>)
    /\ all_suggestions' = <<>>
    /\ calls' = <<>>
    /\ ret' = NoRet
    /\ UNCHANGED <<stats, cacheVars, regionVars, utilVars>>

reset_stats ==
    /\ pc = "idle"
    /\ stats' = [k \in ResetKeys |-> 0]
    /\ UNCHANGED <<pc, args, result, all_suggestions, calls, ret, cacheVars, regionVars, utilVars>>

HybridNext ==
    \/ \E region \in RegionArgs, is_icon \in BOOLEAN, raise_on_not_found \in BOOLEAN,
          instruction \in Instructions, quad \in LocateQuads :
            Locate(region, is_icon, raise_on_not_found, instruction, quad)
    \/ TryOcr(1)
    \/ PickBestMatch(1)
    \/ TryOcr(2)
    \/ PickBestMatch(2)
    \/ TryIcon
    \/ LocateEnd
    \/ reset_stats
    \/ \E bounds \in BOOLEAN : update_for_active_window(bounds)
    \/ \E name \in CustomNames : RegionAdd(name)
    \/ \E name \in CustomNames : RegionRemove(name)

----------------------------------------------------------------------------
(* Retry wrapper: _make_wrapper.wrapper and retry_call, one step per attempt *)

Min(a, b) == IF a <= b THEN a ELSE b

Max(a, b) == IF a >= b THEN a ELSE b

RECURSIVE Pow(_, _)
Pow(b, e) == IF e = 0 THEN 1 ELSE b * Pow(b, e - 1)

\* RetryConfig; delays are whole numbers of one delay unit
RetryConfigs ==
    [max_attempts : 0..MaxAttempts, base_delay : 1..MaxDelay, max_delay : 1..MaxDelay,
     exponential_base : 1..MaxExpBase]

\* the two entry points run the same loop
RetryEntries == {"with_retry", "retry_call"}

\* func.__name__ of the wrapped callables
FuncNames == {"_ocr", "_icon"}

\* what one invocation of the callable does: returns a value, raises an error
\* matching config.retry_on, or raises any other error
FuncOutcomes == [kind : {"return", "retryable", "other"}, what : {"a", "b"}]

NoOutcome ==
    [kind |-> "none", value |-> None, operation |-> None, attempts |-> None,
     last_error |-> None]

\* `return func(*args, **kwargs)`
Returned(value) == [NoOutcome EXCEPT !.kind = "returned", !.value = Some(value)]

\* raise RetryExhaustedError(operation, attempts, last_error)
RetryExhausted(operation, attempts, last_error) ==
    [NoOutcome EXCEPT !.kind = "exhausted", !.operation = Some(operation),
                      !.attempts = Some(attempts), !.last_error = last_error]

PropagatedWrapped(error) ==
    RetryExhausted(rcall.name, rcall.config.max_attempts, Some(error))

\* an error outside retry_on leaves the wrapper as it is
Propagated(error) == [NoOutcome EXCEPT !.kind = "propagated", !.last_error = Some(error)]

IsLastAttemptOffByOne(n, max_attempts) == n >= max_attempts - 1

\* `if attempt == config.max_attempts: break`
IsLastAttempt(n, max_attempts) == n = max_attempts

SleepSkipped(log, d) == log

\* time.sleep(delay)
Sleep(log, d) == Append(log, d)

\* delay = min(delay * config.exponential_base, config.max_delay)
NextDelay(d, cfg) == Min(d * cfg.exponential_base, cfg.max_delay)

RetryCall(via, name, cfg) ==
    /\ rpc = "idle"
    /\ rcall' = [via |-> via, name |-> name, config |-> cfg]
    /\ attempt' = 1
    /\ delay' = cfg.base_delay
    /\ last_exception' = None
    /\ invoked' = <<>>
    /\ sleeps' = <<>>
    /\ IF cfg.max_attempts >= 1
          THEN rpc' = "attempt" /\ routcome' = NoOutcome
          ELSE /\ rpc' = "done"
               /\ routcome' = RetryExhausted(name, cfg.max_attempts, None)
    /\ UNCHANGED retryOthers

\* one pass of the loop body
RetryAttempt(out) ==
    /\ rpc = "attempt"
    /\ invoked' = Append(invoked, out)
    /\ IF out.kind = "return"
          THEN /\ routcome' = Returned(out.what)
               /\ rpc' = "done"
               /\ UNCHANGED <<attempt, delay, last_exception, sleeps>>
       ELSE IF out.kind = "other"
          THEN /\ routcome' = Propagated(out.what)
               /\ rpc' = "done"
               /\ UNCHANGED <<attempt, delay, last_exception, sleeps>>
       ELSE /\ last_exception' = Some(out.what)
            /\ IF IsLastAttempt(attempt, rcall.config.max_attempts)
                  THEN /\ routcome' = RetryExhausted(rcall.name, rcall.config.max_attempts,
                                                     Some(out.what))
                       /\ rpc' = "done"
                       /\ UNCHANGED <<attempt, delay, sleeps>>
                  ELSE /\ sleeps' = Sleep(sleeps, delay)
                       /\ delay' = NextDelay(delay, rcall.config)
                       /\ attempt' = attempt + 1
                       /\ UNCHANGED <<rpc, routcome>>
    /\ UNCHANGED <<rcall, retryOthers>>

NoCall == [via |-> "with_retry", name |-> "_ocr",
           config |-> [max_attempts |-> 0, base_delay |-> 1, max_delay |-> 1,
                       exponential_base |-> 1]]

RetryInit ==
    /\ rpc = "idle"
    /\ rcall = NoCall
    /\ attempt = 1
    /\ delay = 1
    /\ last_exception = None
    /\ invoked = <<>>
    /\ sleeps = <<>>
    /\ routcome = NoOutcome

\* the caller takes the value or the exception; the wrapper's frame is gone
RetryEnd ==
    /\ rpc = "done"
    /\ rpc' = "idle"
    /\ rcall' = NoCall
    /\ attempt' = 1
    /\ delay' = 1
    /\ last_exception' = None
    /\ invoked' = <<>>
    /\ sleeps' = <<>>
    /\ routcome' = NoOutcome
    /\ UNCHANGED retryOthers

RetryNext ==
    \/ \E via \in RetryEntries, name \in FuncNames, cfg \in RetryConfigs :
          RetryCall(via, name, cfg)
    \/ \E out \in FuncOutcomes : RetryAttempt(out)
    \/ RetryEnd

----------------------------------------------------------------------------
(* RegionManager with coordinates *)

\* a normalized coordinate is the fraction <<numerator, denominator>>,
\* denominator > 0; coords are <<x1, y1, x2, y2>>
Frac(n, d) == <<n, d>>

FracLeq(a, b) == a[1] * b[2] <= b[1] * a[2]

FracLt(a, b) == a[1] * b[2] < b[1] * a[2]

\* coords written in hundredths, as the literals of the source are
Hundredths(x1, y1, x2, y2) ==
    <<Frac(x1, 100), Frac(y1, 100), Frac(x2, 100), Frac(y2, 100)>>

\* the default table REGIONS
RegionTable ==
    [name \in REGIONS |->
        CASE name = "menu_bar"    -> Hundredths(0, 0, 100, 4)
          [] name = "toolbar"     -> Hundredths(0, 4, 100, 12)
          [] name = "sidebar"     -> Hundredths(0, 4, 25, 95)
          [] name = "main"        -> Hundredths(25, 4, 100, 95)
          [] name = "bottom"      -> Hundredths(0, 90, 100, 100)
          [] name = "dock"        -> Hundredths(0, 95, 100, 100)
          [] name = "full"        -> Hundredths(0, 0, 100, 100)
          [] name = "center"      -> Hundredths(25, 25, 75, 75)
          [] name = "top_half"    -> Hundredths(0, 0, 100, 50)
          [] name = "bottom_half" -> Hundredths(0, 50, 100, 100)
          [] name = "left_half"   -> Hundredths(0, 0, 50, 100)
          [] name = "right_half"  -> Hundredths(50, 0, 100, 100)]

\* to_norm inside get_window_relative_regions
to_norm(px_x, px_y, px_w, px_h, screen_width, screen_height) ==
    <<Frac(px_x, screen_width), Frac(px_y, screen_height),
      Frac(px_x + px_w, screen_width), Frac(px_y + px_h, screen_height)>>

\* get_window_relative_regions for detected bounds <<x, y, width, height>>;
\* int(ww * 0.30) and int(wh * 0.08) are the integer quotients below
get_window_relative_regions(screen_width, screen_height, window_bounds, scale) ==
    LET wx == window_bounds[1] * scale
        wy == window_bounds[2] * scale
        ww == window_bounds[3] * scale
        wh == window_bounds[4] * scale
        sidebar_width == (ww * 30) \div 100
        toolbar_height == (wh * 8) \div 100
        norm(a, b, c, d) == to_norm(a, b, c, d, screen_width, screen_height)
    IN  [name \in WindowRegionNames |->
            CASE name = "window"   -> norm(wx, wy, ww, wh)
              [] name = "sidebar"  -> norm(wx, wy + toolbar_height, sidebar_width,
                                           wh - toolbar_height)
              [] name = "main"     -> norm(wx + sidebar_width, wy + toolbar_height,
                                           ww - sidebar_width, wh - toolbar_height)
              [] name = "toolbar"  -> norm(wx, wy, ww, toolbar_height)
              [] name = "menu_bar" -> Hundredths(0, 0, 100, 3)
              [] name = "dock"     -> Hundredths(0, 95, 100, 100)
              [] name = "full"     -> Hundredths(0, 0, 100, 100)]

\* the test of add: 0 <= x1 < x2 <= 1 and 0 <= y1 < y2 <= 1
ValidCoords(c) ==
    /\ FracLeq(Frac(0, 1), c[1]) /\ FracLt(c[1], c[3]) /\ FracLeq(c[3], Frac(1, 1))
    /\ FracLeq(Frac(0, 1), c[2]) /\ FracLt(c[2], c[4]) /\ FracLeq(c[4], Frac(1, 1))

EmptyMap == [name \in {} |-> Hundredths(0, 0, 100, 100)]

LookupWindowFirst(cm, wm, name) ==
    IF name \in DOMAIN wm THEN Some(wm[name])
    ELSE IF name \in DOMAIN cm THEN Some(cm[name])
    ELSE IF name \in REGIONS THEN Some(RegionTable[name])
    ELSE None

\* RegionManager.get: Some(coords), or None for InvalidRegionError
Lookup(cm, wm, name) ==
    IF name \in DOMAIN cm THEN Some(cm[name])
    ELSE IF name \in DOMAIN wm THEN Some(wm[name])
    ELSE IF name \in REGIONS THEN Some(RegionTable[name])
    ELSE None

\* names and coords callers pass to add
CustomRegionNames == {"sidebar", "mine"}

CustomCoords ==
    {Hundredths(0, 0, 50, 50), Hundredths(50, 0, 100, 100),
     Hundredths(50, 50, 50, 100), Hundredths(0, 0, 150, 100), Hundredths(-10, 0, 50, 50)}

\* names callers pass to get
LookupNames == {"full", "window", "sidebar", "main", "toolbar", "menu_bar", "dock",
                "mine", "bogus"}

\* screen sizes and window bounds the system reports, in pixels
ScreenSizes == {<<100 * MaxScreen, 100 * MaxScreen>>}

WindowBounds ==
    {<<100 * x, 100 * y, 100 * w, 100 * h>> :
        x \in -1..1, y \in 0..1, w \in {1, MaxScreen}, h \in {1, MaxScreen}}

\* get_retina_scale_factor
ScaleFactors == {1, 2}

RegionOp(op, name, ok, region) == [op |-> op, name |-> name, ok |-> ok, region |-> region]

NoRegionOp == RegionOp("none", "", TRUE, None)

add(name, coords) ==
    /\ IF ValidCoords(coords)
          THEN /\ custom_map' = (name :> coords) @@ custom_map
               /\ custom_regions' = custom_regions \cup {name}
          ELSE UNCHANGED <<custom_map, custom_regions>>
    /\ rop' = RegionOp("add", name, ValidCoords(coords), None)
    /\ UNCHANGED <<window_map, window_regions, screen_size, last_detect, geomOthers>>

remove(name) ==
    /\ IF name \in DOMAIN custom_map
          THEN /\ custom_map' = [n \in DOMAIN custom_map \ {name} |-> custom_map[n]]
               /\ custom_regions' = custom_regions \ {name}
          ELSE UNCHANGED <<custom_map, custom_regions>>
    /\ rop' = RegionOp("remove", name, name \in DOMAIN custom_map, None)
    /\ UNCHANGED <<window_map, window_regions, screen_size, last_detect, geomOthers>>

\* update_for_active_window: window_bounds is None when no bounds were obtained
update_window(size, window_bounds, scale) ==
    /\ screen_size' = size
    /\ IF window_bounds # None
          THEN /\ window_map' = get_window_relative_regions(size[1], size[2],
                                                            window_bounds[1], scale)
               /\ window_regions' = DOMAIN window_map'
               /\ last_detect' = "detected"
          ELSE /\ UNCHANGED <<window_map, window_regions>>
               /\ last_detect' = "failed"
    /\ rop' = RegionOp("update", "", window_bounds # None, None)
    /\ UNCHANGED <<custom_map, custom_regions, geomOthers>>

get(name) ==
    /\ rop' = LET found == Lookup(custom_map, window_map, name)
              IN  RegionOp("get", name, found # None, found)
    /\ UNCHANGED <<custom_map, custom_regions, window_map, window_regions, screen_size,
                   last_detect, geomOthers>>

GeomInit ==
    /\ custom_map = EmptyMap
    /\ window_map = EmptyMap
    /\ screen_size = <<1920, 1080>>
    /\ last_detect = "none"
    /\ rop = NoRegionOp

RegionNext ==
    \/ \E name \in CustomRegionNames, coords \in CustomCoords : add(name, coords)
    \/ \E name \in CustomRegionNames : remove(name)
    \/ \E size \in ScreenSizes, b \in WindowBounds, scale \in ScaleFactors :
          update_window(size, Some(b), scale)
    \/ \E size \in ScreenSizes : update_window(size, None, 1)
    \/ \E name \in LookupNames : get(name)

----------------------------------------------------------------------------
(* BoundingBox.expand and BoundingBox.clamp *)

BoundingBox(x1, y1, x2, y2) == [x1 |-> x1, y1 |-> y1, x2 |-> x2, y2 |-> y2]

expand(box, padding) ==
    BoundingBox(box.x1 - padding, box.y1 - padding, box.x2 + padding, box.y2 + padding)

clamp(box, width, height) ==
    BoundingBox(Max(0, box.x1), Max(0, box.y1), Min(width, box.x2), Min(height, box.y2))

\* boxes with x1 < x2 and y1 < y2
Boxes ==
    {b \in [x1 : -1..MaxCoord, y1 : 0..MaxCoord, x2 : 0..(MaxCoord + 1),
            y2 : 1..(MaxCoord + 1)] : b.x1 < b.x2 /\ b.y1 < b.y2}

\* the calls made: a box, a padding >= 0 and an image of positive size
BoxCalls == [box : Boxes, padding : 0..MaxPad, width : 1..MaxCoord, height : 1..MaxCoord]

NoBoxCall == [box |-> BoundingBox(0, 0, 1, 1), padding |-> 0, width |-> 1, height |-> 1]

BoxIdle ==
    /\ box_in = NoBoxCall
    /\ box_out = None

\* crop_to_bbox: bbox.expand(padding).clamp(img.width, img.height)
ExpandClamp ==
    /\ box_out = None
    /\ box_out' = Some(clamp(expand(box_in.box, box_in.padding), box_in.width, box_in.height))
    /\ UNCHANGED <<box_in, boxOthers>>

BoxNext == ExpandClamp

----------------------------------------------------------------------------
(* IconLocator.locate: what it does with the vision service's reply *)

\* a JSON value as far as locate looks at it: its type, its characters when
\* it is a string, and its truth value in Python
JMissing == [t |-> "missing", s |-> <<>>, truthy |-> FALSE]

JNull == [t |-> "null", s |-> <<>>, truthy |-> FALSE]

JBool(b) == [t |-> "bool", s |-> <<>>, truthy |-> b]

JNum(nonzero) == [t |-> "num", s |-> <<>>, truthy |-> nonzero]

JStr(chars) == [t |-> "str", s |-> chars, truthy |-> chars # <<>>]

JList(nonempty) == [t |-> "list", s |-> <<>>, truthy |-> nonempty]

JObj(nonempty) == [t |-> "obj", s |-> <<>>, truthy |-> nonempty]

\* values of the "found" key
FoundValues == {JMissing, JBool(TRUE), JBool(FALSE), JStr(<<"n", "o">>)}

\* values of the "cell" key
CellValues ==
    {JMissing, JNull, JBool(TRUE), JNum(TRUE), JNum(FALSE), JList(TRUE), JList(FALSE),
     JObj(TRUE), JObj(FALSE), JStr(<<>>), JStr(<<"B", "3">>), JStr(<<"b", "1", "2">>),
     JStr(<<"B">>), JStr(<<"3", "B">>), JStr(<<"Z", "9", "9">>), JStr(<<"B", "-", "3">>)}

\* values of the "description" key
Descriptions == {JMissing, JStr(<<"g", "e", "a", "r">>)}

\* the JSON objects a reply can hold
ReplyObjects == [found : FoundValues, cell : CellValues, description : Descriptions]

\* objects the pattern \{[^{}]*\} can pick out of surrounding prose
FlatObjects == {o \in ReplyObjects : o.cell.t # "obj"}

NoObject == [found |-> JMissing, cell |-> JMissing, description |-> JMissing]

\* what the vision call does: raises, or answers with a text that is JSON
\* (an object or another value), prose around a flat object, or prose only;
\* the text may be wrapped in a markdown code fence, with the fence markers on
\* lines of their own ("block") or on the line of the text ("inline")
Fences == {"none", "block", "inline"}

VisionOutcomes ==
    {[api |-> "raise", fence |-> "none", body |-> "prose", top |-> JNull, obj |-> NoObject]}
    \cup [api : {"text"}, fence : Fences, body : {"json"}, top : {JObj(TRUE)},
          obj : ReplyObjects]
    \cup [api : {"text"}, fence : Fences, body : {"json"},
          top : {JNull, JBool(TRUE), JNum(TRUE), JStr(<<"B", "3">>), JList(TRUE)},
          obj : {NoObject}]
    \cup [api : {"text"}, fence : Fences, body : {"prose_object"}, top : {JNull},
          obj : FlatObjects]
    \cup [api : {"text"}, fence : Fences, body : {"prose"}, top : {JNull},
          obj : {NoObject}]

FailedToParse ==
    [found |-> JBool(FALSE), cell |-> JNull,
     description |-> JStr(<<"F", "a", "i", "l", "e", "d">>)]

\* _parse_response: the first line is dropped when the text starts with a
\* fence (and the last when it is a closing fence), then json.loads, then the
\* pattern search, then the fixed not-found dict.  Some(object), or None when
\* json.loads gave a value that is not a dict.
_parse_response(reply) ==
    IF reply.fence = "inline" THEN Some(FailedToParse)
    ELSE IF reply.body = "json"
       THEN IF reply.top.t = "obj" THEN Some(reply.obj) ELSE None
    ELSE IF reply.body = "prose_object" THEN Some(reply.obj)
    ELSE Some(FailedToParse)

IsDigit(c) == c \in {"0", "1", "2", "3", "4", "5", "6", "7", "8", "9"}

\* int(text) accepts an optional sign followed by digits
IsIntLiteral(chars) ==
    LET digits == IF chars # <<>> /\ Head(chars) \in {"-", "+"} THEN Tail(chars) ELSE chars
    IN  digits # <<>> /\ \A i \in 1..Len(digits) : IsDigit(digits[i])

\* _cell_to_bbox on a truthy cell: "ok", or the exception cell[0].upper() and
\* int(cell[1:]) raise
CellOutcome(cell) ==
    IF cell.t = "str"
       THEN IF IsIntLiteral(Tail(cell.s)) THEN "ok" ELSE "ValueError"
    ELSE IF cell.t = "obj" THEN "KeyError"
    ELSE "TypeError"

\* `except (ValueError, IndexError)`
CaughtCellErrors == {"ValueError", "IndexError"}

IconRet(kind, error, res) == [kind |-> kind, error |-> error, result |-> res]

NoIconRet == IconRet("none", "", not_found(<<>>))

\* the suggestion of the final not-found branch
DescriptionOr(obj) ==
    IF obj.description.t = "missing" THEN "Icon not found" ELSE "description"

\* locate from the vision call on
IconLocateResult(reply) ==
    IF reply.api = "raise" THEN IconRet("returned", "", IconNotFound("Gemini API error"))
    ELSE LET parsed == _parse_response(reply) IN
         IF parsed = None THEN IconRet("raised", "AttributeError", not_found(<<>>))
         ELSE LET obj == parsed[1] IN
              IF obj.found.truthy /\ obj.cell.truthy
                 THEN IF CellOutcome(obj.cell) = "ok"
                         THEN IconRet("returned", "", IconFound)
                      ELSE IF CellOutcome(obj.cell) \in CaughtCellErrors
                         THEN IconRet("returned", "", IconNotFound("Invalid cell"))
                      ELSE IconRet("raised", CellOutcome(obj.cell), not_found(<<>>))
              ELSE IconRet("returned", "", IconNotFound(DescriptionOr(obj)))

NoVisionOutcome ==
    [api |-> "raise", fence |-> "none", body |-> "prose", top |-> JNull, obj |-> NoObject]

IconIdle ==
    /\ ireq = NoVisionOutcome
    /\ iret = NoIconRet

IconLocate ==
    /\ iret = NoIconRet
    /\ iret' = IconLocateResult(ireq)
    /\ UNCHANGED <<ireq, iconOthers>>

IconNext == IconLocate

----------------------------------------------------------------------------
(* IconLocator.locate: crop, grid cell and coordinates *)

GRID_COLS == 24

GRID_ROWS == 16

\* resize_for_api(img, max_width=800)
max_width == 800

\* int(n / d) for d > 0: truncation toward zero
Trunc(n, d) == IF n >= 0 THEN n \div d ELSE -((-n) \div d)

\* Region.to_pixels on coords held as fractions: <<px1, py1, px2, py2>>
to_pixels(coords, width, height) ==
    <<Trunc(coords[1][1] * width, coords[1][2]), Trunc(coords[2][1] * height, coords[2][2]),
      Trunc(coords[3][1] * width, coords[3][2]), Trunc(coords[4][1] * height, coords[4][2])>>

\* RegionManager.crop_image on a w x h image: the pixel rectangle of the crop
crop_image(region, w, h) == to_pixels(RegionTable[region], w, h)

\* the planner's selectors; the integers 1..4 are written "1".."4"
valid_quads == {"1", "2", "3", "4", "top", "bottom", "left", "right"}

_get_quad_bounds(quad, w, h) ==
    CASE quad = "1"      -> <<0, 0, w \div 2, h \div 2>>
      [] quad = "2"      -> <<w \div 2, 0, w, h \div 2>>
      [] quad = "3"      -> <<0, h \div 2, w \div 2, h>>
      [] quad = "4"      -> <<w \div 2, h \div 2, w, h>>
      [] quad = "top"    -> <<0, 0, w, h \div 2>>
      [] quad = "bottom" -> <<0, h \div 2, w, h>>
      [] quad = "left"   -> <<0, 0, w \div 2, h>>
      [] quad = "right"  -> <<w \div 2, 0, w, h>>
      [] OTHER           -> <<0, 0, w, h>>

\* f"quad-{quad}" if isinstance(quad, int) else quad
QuadRegionName(quad) ==
    CASE quad = "1" -> "quad-1"
      [] quad = "2" -> "quad-2"
      [] quad = "3" -> "quad-3"
      [] quad = "4" -> "quad-4"
      [] OTHER      -> quad

\* the keyword lists of _detect_region_from_instruction, in the order tested
KeywordGroups ==
    << [name |-> "top-right",
        words |-> {"battery", "wifi", "bluetooth", "volume", "sound", "clock", "time",
                   "date", "status", "notification", "control center", "menu bar"}],
       [name |-> "top-left",
        words |-> {"close", "minimize", "maximize", "apple menu", "file menu",
                   "edit menu", "app menu", "red button", "traffic light"}],
       [name |-> "left-half",
        words |-> {"sidebar", "navigation", "nav", "menu", "hamburger", "drawer", "panel"}],
       [name |-> "top-half",
        words |-> {"toolbar", "search", "address bar", "url", "tab"}],
       [name |-> "bottom-half",
        words |-> {"dock", "taskbar", "bottom"}] >>

\* the dict `regions` of _detect_region_from_instruction
DetectBounds(name, w, h) ==
    CASE name = "top-right"    -> <<w \div 2, 0, w, h \div 2>>
      [] name = "top-left"     -> <<0, 0, w \div 2, h \div 2>>
      [] name = "bottom-right" -> <<w \div 2, h \div 2, w, h>>
      [] name = "bottom-left"  -> <<0, h \div 2, w \div 2, h>>
      [] name = "top-half"     -> <<0, 0, w, h \div 2>>
      [] name = "bottom-half"  -> <<0, h \div 2, w, h>>
      [] name = "left-half"    -> <<0, 0, w \div 2, h>>
      [] name = "right-half"   -> <<w \div 2, 0, w, h>>
      [] OTHER                 -> <<0, 0, w, h>>

\* _detect_region_from_instruction; `text` is the set of listed keywords that
\* occur in f"{instruction} {target}".lower()
RECURSIVE FirstGroup(_, _)
FirstGroup(text, i) ==
    IF i > Len(KeywordGroups) THEN "full"
    ELSE IF text \cap KeywordGroups[i].words # {} THEN KeywordGroups[i].name
    ELSE FirstGroup(text, i + 1)

DetectedGroup(text) == FirstGroup(text, 1)

_detect_region_from_instruction(text, w, h) ==
    [name |-> DetectedGroup(text), bounds |-> DetectBounds(DetectedGroup(text), w, h)]

\* image.resize_for_api: <<width, height>> of the image sent to the service
resize_for_api(w, h) ==
    IF w <= max_width THEN <<w, h>> ELSE <<max_width, Trunc(h * max_width, w)>>

UpperLetters ==
    <<"A", "B", "C", "D", "E", "F", "G", "H", "I", "J", "K", "L", "M",
      "N", "O", "P", "Q", "R", "S", "T", "U", "V", "W", "X", "Y", "Z">>

LowerLetters ==
    <<"a", "b", "c", "d", "e", "f", "g", "h", "i", "j", "k", "l", "m",
      "n", "o", "p", "q", "r", "s", "t", "u", "v", "w", "x", "y", "z">>

DigitChars == <<"0", "1", "2", "3", "4", "5", "6", "7", "8", "9">>

IndexIn(seq, c) == CHOOSE i \in 1..Len(seq) : seq[i] = c

\* ord(c.upper()) - ord('A') for a letter, a digit or a sign
ColumnOf(c) ==
    IF c \in Range(UpperLetters) THEN IndexIn(UpperLetters, c) - 1
    ELSE IF c \in Range(LowerLetters) THEN IndexIn(LowerLetters, c) - 1
    ELSE IF c \in Range(DigitChars) THEN IndexIn(DigitChars, c) - 1 - 17
    ELSE IF c = "+" THEN -22
    ELSE -20

RECURSIVE DigitsValue(_)
DigitsValue(chars) ==
    IF chars = <<>> THEN 0
    ELSE 10 * DigitsValue(SubSeq(chars, 1, Len(chars) - 1))
         + (IndexIn(DigitChars, chars[Len(chars)]) - 1)

\* int(text) of an integer literal
IntOf(chars) ==
    IF Head(chars) = "-" THEN -DigitsValue(Tail(chars))
    ELSE IF Head(chars) = "+" THEN DigitsValue(Tail(chars))
    ELSE DigitsValue(chars)

\* zero-based column and row of a label _cell_to_bbox accepts
CellCol(chars) == ColumnOf(Head(chars))

CellRow(chars) == IntOf(Tail(chars)) - 1

\* _cell_to_bbox on column col and row `row`, with padding = 0.15
CellBox(col, row, img_width, img_height) ==
    BoundingBox(Trunc((100 * col + 15) * img_width, 100 * GRID_COLS),
                Trunc((100 * row + 15) * img_height, 100 * GRID_ROWS),
                Trunc((100 * col + 85) * img_width, 100 * GRID_COLS),
                Trunc((100 * row + 85) * img_height, 100 * GRID_ROWS))

_cell_to_bbox(chars, img_width, img_height) ==
    CellBox(CellCol(chars), CellRow(chars), img_width, img_height)

\* lines 313-342: the rectangle cut out of the original image, as
\* [x, y, w, h, detected_region]; x and y are offset_x and offset_y
RegionCrop(call) ==
    IF call.region # "full"
       THEN LET p == crop_image(call.region, call.width, call.height)
            IN  [x |-> p[1], y |-> p[2], w |-> p[3] - p[1], h |-> p[4] - p[2]]
    ELSE [x |-> 0, y |-> 0, w |-> call.width, h |-> call.height]

SubRectangleKeywordsFirst(call, img) ==
    LET det == _detect_region_from_instruction(call.text, img.w, img.h)
    IN  IF det.name # "full" THEN [name |-> det.name, bounds |-> det.bounds]
        ELSE IF call.quad \in valid_quads
           THEN [name |-> QuadRegionName(call.quad),
                 bounds |-> _get_quad_bounds(call.quad, img.w, img.h)]
        ELSE [name |-> "full", bounds |-> <<0, 0, img.w, img.h>>]

\* detected_region and bounds; a "full" detection leaves the image as it is
SubRectangle(call, img) ==
    IF call.quad \in valid_quads
       THEN [name |-> QuadRegionName(call.quad),
             bounds |-> _get_quad_bounds(call.quad, img.w, img.h)]
    ELSE LET det == _detect_region_from_instruction(call.text, img.w, img.h)
         IN  [name |-> det.name, bounds |-> det.bounds]

SearchImage(call) ==
    LET img == RegionCrop(call)
        sub == SubRectangle(call, img)
    IN  [x |-> img.x + sub.bounds[1], y |-> img.y + sub.bounds[2],
         w |-> sub.bounds[3] - sub.bounds[1], h |-> sub.bounds[4] - sub.bounds[2],
         detected_region |-> sub.name]

\* lines 383-403: the cell's box scaled back, moved by the offsets, clamped
LocatedBox(call, img) ==
    LET api == resize_for_api(img.w, img.h)
        bbox_api == _cell_to_bbox(call.cell, api[1], api[2])
        x1 == Trunc(bbox_api.x1 * img.w, api[1]) + img.x
        y1 == Trunc(bbox_api.y1 * img.h, api[2]) + img.y
        x2 == Trunc(bbox_api.x2 * img.w, api[1]) + img.x
        y2 == Trunc(bbox_api.y2 * img.h, api[2]) + img.y
    IN  BoundingBox(Max(0, Min(x1, call.width - 1)), Max(0, Min(y1, call.height - 1)),
                    Max(0, Min(x2, call.width)), Max(0, Min(y2, call.height)))

\* locate for a reply {"found": true, "cell": <label>}
GridLocateResult(call) ==
    LET img == SearchImage(call)
    IN  IF CellOutcome(JStr(call.cell)) = "ok"
           THEN [img |-> img, found |-> TRUE, bbox |-> Some(LocatedBox(call, img)),
                 suggestions |-> <<>>]
        ELSE [img |-> img, found |-> FALSE, bbox |-> None,
              suggestions |-> <<"Invalid cell">>]

\* screenshots
ImageSizes == {<<1920, 1080>>, <<1440, 900>>, <<640, 480>>}

GridRegions == {"full", "menu_bar", "sidebar", "center", "dock"}

\* None, the valid selectors and one the planner would not send
Quads == {"none", "5"} \cup valid_quads

\* keyword sets of an instruction and target; "menu bar" contains "menu"
Texts ==
    {{}, {"battery"}, {"close"}, {"menu"}, {"menu bar", "menu"}, {"search"},
     {"dock"}, {"dock", "battery"}, {"search", "sidebar"}}

\* truthy strings a reply can name as the cell
GridCells ==
    {<<"A", "1">>, <<"X", "1", "6">>, <<"B", "3">>, <<"b", "1", "2">>,
     <<"Z", "9", "9">>, <<"B", "-", "3">>, <<"3", "1">>, <<"Y", "1">>,
     <<"A", "1", "7">>, <<"B">>}

GridCalls ==
    {[width |-> s[1], height |-> s[2], region |-> r, quad |-> q, text |-> t, cell |-> c] :
        s \in ImageSizes, r \in GridRegions, q \in Quads, t \in Texts, c \in GridCells}

NoGridCall ==
    [width |-> 0, height |-> 0, region |-> "full", quad |-> "none", text |-> {},
     cell |-> <<>>]

GridIdle ==
    /\ grid_in = NoGridCall
    /\ grid_out = None

GridLocate ==
    /\ grid_in # NoGridCall
    /\ grid_out = None
    /\ grid_out' = Some(GridLocateResult(grid_in))
    /\ UNCHANGED <<grid_in, gridOthers>>

GridNext == GridLocate

----------------------------------------------------------------------------
(* /ws/run: websocket_task_runner *)

\* an event as the client sees it: its type, the "error" text, and the
\* steps_completed / success fields of task_complete
Event(type, error, steps_completed, success) ==
    [type |-> type, error |-> error, steps_completed |-> steps_completed,
     success |-> success, step_number |-> 0]

Plain(type) == Event(type, "", 0, FALSE)

ErrorEvent(error) == Event("error", error, 0, FALSE)

\* step_started with its "step_number": step_num
StepStarted(step_num) == [Plain("step_started") EXCEPT !.step_number = step_num]

\* the first client message: a JSON value that is an object or not, its
\* "type", and its "data" (absent, null, not an object, or an object whose
\* "task" is absent, empty or non-empty)
StartMessages ==
    [object : {TRUE}, type : {"start_task", "invalid", "step_done"},
     data : {"absent", "null", "not_object", "no_task", "empty_task", "task"}]
    \cup {[object |-> FALSE, type |-> "invalid", data |-> "absent"]}

\* a later client message: the reply types, another type, or a JSON value
\* that is not an object
Replies == {"step_done", "step_retry", "step_skip", "cancel", "other", "not_object"}

\* planner.generate_plan after take_screenshot: raises (None), or a plan of n
\* steps
PlanOutcomes == {None} \cup {Some(n) : n \in 0..MaxSteps}

\* take_screenshot and locator.locate of one iteration
StepOutcomes == {"screenshot_raises", "locate_raises", "result"}

Session(at, total, current_step, step_num, advances, first, response) ==
    [pc |-> at, total |-> total, current_step |-> current_step, step_num |-> step_num,
     advances |-> advances, first |-> first, response |-> response]

NoMessage == [object |-> FALSE, type |-> "none", data |-> "absent"]

WsIdle ==
    /\ ws = Session("new", 0, 0, 0, 0, NoMessage, "none")
    /\ ws_events = <<>>

\* Plan.is_complete
is_complete(s) == s.current_step >= s.total

\* Plan.advance
advance(s) ==
    IF ~is_complete(s)
       THEN [s EXCEPT !.current_step = @ + 1, !.advances = @ + 1]
    ELSE s

\* `except Exception`: the error event, then the exception goes on
Crash(s, text) ==
    /\ ws' = [s EXCEPT !.pc = "raised"]
    /\ ws_events' = Append(ws_events, ErrorEvent(text))

\* the task_complete event after the loop
Complete(s) ==
    /\ ws' = [s EXCEPT !.pc = "returned"]
    /\ ws_events' = Append(ws_events,
                           Event("task_complete", "", s.current_step, is_complete(s)))

\* accept and the connected event
WsConnect ==
    /\ ws.pc = "new"
    /\ ws' = [ws EXCEPT !.pc = "wait_start"]
    /\ ws_events' = Append(ws_events, Plain("connected"))
    /\ UNCHANGED wsOthers

\* the first message, up to plan_ready
WsStart(message, plan) ==
    /\ ws.pc = "wait_start"
    /\ LET s == [ws EXCEPT !.first = message] IN
       IF ~message.object THEN Crash(s, "AttributeError")
       ELSE IF message.type # "start_task"
          THEN /\ ws' = [s EXCEPT !.pc = "returned"]
               /\ ws_events' = Append(ws_events, ErrorEvent("Expected start_task"))
       ELSE IF message.data \in {"null", "not_object"} THEN Crash(s, "AttributeError")
       ELSE IF message.data # "task"
          THEN /\ ws' = [s EXCEPT !.pc = "returned"]
               /\ ws_events' = Append(ws_events, ErrorEvent("No task provided"))
       ELSE IF plan = None
          THEN /\ ws' = [s EXCEPT !.pc = "returned"]
               /\ ws_events' = ws_events \o <<Plain("plan_started"), Plain("plan_error")>>
       ELSE /\ ws' = [s EXCEPT !.pc = "loop", !.total = plan[1]]
            /\ ws_events' = ws_events \o <<Plain("plan_started"), Plain("plan_ready")>>
    /\ UNCHANGED wsOthers

\* the loop test and one iteration up to the wait for the client's reply
WsStep(outcome) ==
    /\ ws.pc = "loop"
    /\ IF is_complete(ws) THEN Complete(ws)
       ELSE /\ ws.step_num < MaxStepNum
            /\ LET s == [ws EXCEPT !.step_num = @ + 1]
                   started == Append(ws_events, StepStarted(s.step_num))
               IN  CASE outcome = "screenshot_raises" ->
                            /\ ws' = [s EXCEPT !.pc = "raised"]
                            /\ ws_events' = Append(started, ErrorEvent("Exception"))
                     [] outcome = "locate_raises" ->
                            /\ ws' = [s EXCEPT !.pc = "wait_after_error"]
                            /\ ws_events' = Append(started, Plain("step_error"))
                     [] OTHER ->
                            /\ ws' = [s EXCEPT !.pc = "wait_ack"]
                            /\ ws_events' = Append(started, Plain("step_result"))
    /\ UNCHANGED wsOthers

\* the reply after step_error
WsAfterError(response) ==
    /\ ws.pc = "wait_after_error"
    /\ LET s == [ws EXCEPT !.response = response] IN
       CASE response = "not_object" -> Crash(s, "AttributeError")
         [] response = "step_skip"  -> /\ ws' = [advance(s) EXCEPT !.pc = "loop"]
                                       /\ UNCHANGED ws_events
         [] response = "cancel"     -> Complete(s)
         [] OTHER                   -> /\ ws' = [s EXCEPT !.pc = "loop"]
                                       /\ UNCHANGED ws_events
    /\ UNCHANGED wsOthers

\* the reply after step_result
Ack(s, response) ==
    CASE response = "not_object" -> Crash(s, "AttributeError")
      [] response = "step_retry" -> /\ ws' = [s EXCEPT !.pc = "loop"]
                                    /\ UNCHANGED ws_events
      [] response = "cancel"     -> Complete(s)
      [] OTHER                   -> /\ ws' = [advance(s) EXCEPT !.pc = "loop"]
                                    /\ UNCHANGED ws_events

WsAck(response) ==
    /\ ws.pc = "wait_ack"
    /\ Ack([ws EXCEPT !.response = response], response)
    /\ UNCHANGED wsOthers

\* receive_json raises WebSocketDisconnect
WsDisconnect ==
    /\ ws.pc \in {"wait_start", "wait_ack", "wait_after_error"}
    /\ ws' = [ws EXCEPT !.pc = "disconnected"]
    /\ UNCHANGED <<ws_events, wsOthers>>

WsNext ==
    \/ WsConnect
    \/ \E message \in StartMessages : \E plan \in PlanOutcomes : WsStart(message, plan)
    \/ \E outcome \in StepOutcomes : WsStep(outcome)
    \/ \E response \in Replies : WsAfterError(response)
    \/ \E response \in Replies : WsAck(response)
    \/ WsDisconnect

----------------------------------------------------------------------------
(* OCRLocator.locate on the OCR data of the crop, for a one-word target *)

\* config.ocr_fuzzy_threshold, in thousandths
ocr_fuzzy_threshold == 800

\* one fragment of the OCR data as locate sees it against the target: how its
\* lower-cased text relates to the lower-cased target, whether it has at
\* least 4 characters, len(text) / len(target) in percent, the ratio of
\* SequenceMatcher in thousandths, and Tesseract's confidence
Fragment(text, rel, long, cover, ratio, conf) ==
    [text |-> text, rel |-> rel, long |-> long, cover |-> cover, ratio |-> ratio,
     conf |-> conf]

Confidences == {0, 80, 95}

\* fragments named after their relation to the target: the target in another
\* letter case, a text holding it, parts of it (covering 96% and 50% of its
\* length, and one shorter than 4 characters), a long text differing from the
\* target in one letter (ratio 20/21), texts at and just under the threshold
\* by similarity, an unrelated text, and white space
Fragments ==
    {Fragment("same", "equal", TRUE, 100, 1000, c) : c \in Confidences}
    \cup {Fragment("longer", "contains", TRUE, 140, 840, c) : c \in Confidences}
    \cup {Fragment("most", "inside", TRUE, 96, 980, c) : c \in Confidences}
    \cup {Fragment("half", "inside", TRUE, 50, 670, 95)}
    \cup {Fragment("bit", "inside", FALSE, 10, 180, 95)}
    \cup {Fragment("almost", "other", TRUE, 100, 952, 95)}
    \cup {Fragment("similar", "other", TRUE, 100, 800, c) : c \in Confidences}
    \cup {Fragment("nearly", "other", TRUE, 100, 790, c) : c \in Confidences}
    \cup {Fragment("unlike", "other", TRUE, 50, 170, 95)}
    \cup {Fragment(" ", "blank", FALSE, 0, 0, 0)}

\* lines 204-218: a candidate for every fragment with text; the fragment's
\* index stands for its box
Candidates(data) ==
    LET keep == SelectSeq([i \in 1..Len(data) |-> i], LAMBDA i : data[i].rel # "blank")
    IN  [k \in 1..Len(keep) |->
            [text |-> data[keep[k]].text, bbox |-> keep[k],
             confidence |-> data[keep[k]].conf, frag |-> data[keep[k]]]]

\* lines 226-240: the score in thousandths
MatchScore(frag, fuzzy) ==
    IF frag.rel = "equal" THEN 1000
    ELSE IF frag.rel = "contains" THEN 950
    ELSE IF frag.rel = "inside" /\ frag.long THEN (850 * frag.cover) \div 100
    ELSE IF fuzzy THEN frag.ratio
    ELSE 0

ClearsAlways(score) == TRUE

\* `if score >= fuzzy_threshold`
Clears(score) == score >= ocr_fuzzy_threshold

\* the dict appended to all_matches; weighted_score in units of 1/100000
MatchEntry(cand, score) ==
    [text |-> cand.text, bbox |-> cand.bbox, confidence |-> cand.confidence,
     match_score |-> score, weighted_score |-> score * cand.confidence]

\* lines 221-249: the loop over the candidates
FirstPass(candidates, fuzzy) ==
    LET scored == [k \in 1..Len(candidates) |->
                      MatchEntry(candidates[k], MatchScore(candidates[k].frag, fuzzy))]
    IN  SelectSeq(scored, LAMBDA m : Clears(m.match_score))

\* list.sort(key=weighted_score, reverse=True): stable, best first
RECURSIVE SortByWeightedScore(_)
SortByWeightedScore(ms) ==
    IF Len(ms) <= 1 THEN ms
    ELSE LET rest == SortByWeightedScore(SubSeq(ms, 1, Len(ms) - 1))
             m == ms[Len(ms)]
             n == Cardinality({i \in 1..Len(rest) :
                                 rest[i].weighted_score >= m.weighted_score})
         IN  SubSeq(rest, 1, n) \o <<m>> \o SubSeq(rest, n + 1, Len(rest))

\* stable descending sort of texts by their ratio
RECURSIVE SortByRatio(_)
SortByRatio(fs) ==
    IF Len(fs) <= 1 THEN fs
    ELSE LET rest == SortByRatio(SubSeq(fs, 1, Len(fs) - 1))
             f == fs[Len(fs)]
             n == Cardinality({i \in 1..Len(rest) : rest[i].ratio >= f.ratio})
         IN  SubSeq(rest, 1, n) \o <<f>> \o SubSeq(rest, n + 1, Len(rest))

\* _find_suggestions over all_text: ratio above 0.3, best first, at most 5
_find_suggestions(data) ==
    LET scored == SelectSeq(data, LAMBDA f : f.rel # "blank" /\ f.ratio > 300)
        best == SortByRatio(scored)
    IN  [k \in 1..Min(5, Len(best)) |-> best[k].text]

OcrResult(found, element, bbox, confidence, all_matches, suggestions) ==
    [found |-> found, element |-> element, bbox |-> bbox, confidence |-> confidence,
     all_matches |-> all_matches, suggestions |-> suggestions]

\* locate from the candidates on; the second pass needs a target of several
\* words
LocateOnData(data, fuzzy) ==
    LET all_matches == SortByWeightedScore(FirstPass(Candidates(data), fuzzy))
    IN  IF all_matches # <<>>
           THEN OcrResult(TRUE, Some(all_matches[1].text), Some(all_matches[1].bbox),
                          all_matches[1].confidence, all_matches, <<>>)
        ELSE OcrResult(FALSE, None, None, 0, <<>>, _find_suggestions(data))

MatchCalls == [data : SeqsUpTo(Fragments, MaxFragments), fuzzy : BOOLEAN]

NoMatchCall == [data |-> <<>>, fuzzy |-> FALSE]

MatchIdle ==
    /\ match_in = NoMatchCall
    /\ match_out = None

OcrMatch ==
    /\ match_out = None
    /\ match_out' = Some(LocateOnData(match_in.data, match_in.fuzzy))
    /\ UNCHANGED <<match_in, matchOthers>>

MatchNext == OcrMatch

----------------------------------------------------------------------------
(* OCRLocator.locate with its cache *)

\* the cache with its counters and histories, as one value
CacheState ==
    [cache |-> cache, hits |-> hits, misses |-> misses, useOrder |-> useOrder,
     evicted |-> evicted, got_entry |-> got_entry, got_none |-> got_none,
     cleared |-> cleared]

\* OCRCache.get on that value
GetStep(cs, h) ==
    IF InCache(cs.cache, h)
       THEN [cs EXCEPT !.hits = @ + 1, !.cache = move_to_end(cs.cache, h),
                       !.useOrder = Touch(cs.useOrder, h, Keys(cs.cache)),
                       !.got_entry = @ + 1, !.evicted = FALSE, !.cleared = FALSE]
    ELSE [cs EXCEPT !.misses = @ + 1, !.got_none = @ + 1, !.evicted = FALSE,
                    !.cleared = FALSE]

\* OCRCache.put on that value
PutStep(cs, h, data) ==
    LET c == PutCache(cs.cache, h, data)
    IN  [cs EXCEPT !.cache = c, !.useOrder = Touch(cs.useOrder, h, Keys(c)),
                   !.evicted = (Keys(cs.cache) \ Keys(c) # {}), !.cleared = FALSE]

\* what pytesseract.image_to_data does: raises (None), or the data of the crop
OcrDatas ==
    {<<Fragment("same", "equal", TRUE, 100, 1000, 95)>>,
     <<Fragment("unlike", "other", TRUE, 50, 170, 95)>>}

EngineOutcomes == {None} \cup {Some(d) : d \in OcrDatas}

\* the crops handed to locate: per thumbnail, two images that share it
Crops == {img \in Images : img[2] \in {1, NumDetails}}

\* _run_ocr without the cache store
RunOcrNoStore(cs, h, engine) ==
    LET got == GetStep(cs, h) IN
    IF GetReturn(cs.cache, h) # None
       THEN [cs |-> got, engine |-> "not invoked",
             data |-> Some(GetReturn(cs.cache, h)[1].ocr_data)]
    ELSE IF engine = None THEN [cs |-> got, engine |-> "failed", data |-> None]
    ELSE [cs |-> got, engine |-> "ran", data |-> engine]

\* _run_ocr: the cached data on a hit; else the engine's data, stored; data is
\* None when OCRError is raised
_run_ocr(cs, h, engine) ==
    LET got == GetStep(cs, h) IN
    IF GetReturn(cs.cache, h) # None
       THEN [cs |-> got, engine |-> "not invoked",
             data |-> Some(GetReturn(cs.cache, h)[1].ocr_data)]
    ELSE IF engine = None THEN [cs |-> got, engine |-> "failed", data |-> None]
    ELSE [cs |-> PutStep(got, h, engine[1]), engine |-> "ran", data |-> engine]

\* _get_all_text: the entry is read back from the cache
_get_all_text(cs, h) == GetStep(cs, h)

OcrCall(img, engine, kind, res) ==
    [img |-> img, engine |-> engine, kind |-> kind, result |-> res]

NoOcrResult == OcrResult(FALSE, None, None, 0, <<>>, <<>>)

NoOcrCall == OcrCall(<<0, 0>>, "not invoked", "none", NoOcrResult)

OcrIdle ==
    /\ ocr_last = NoOcrCall
    /\ ocr_count = 0

\* locate(img, target) on the crop img, with the engine behaving as `engine`
OcrLocate(img, engine) ==
    /\ ocr_count < MaxLocates
    /\ ocr_count' = ocr_count + 1
    /\ \E ran \in {_run_ocr(CacheState, _compute_hash(img), engine)} :
       \E res \in {IF ran.data = None THEN NoOcrResult
                   ELSE LocateOnData(ran.data[1], TRUE)} :
       \E cs \in {IF ran.data # None /\ ~res.found
                      THEN _get_all_text(ran.cs, _compute_hash(img))
                   ELSE ran.cs} :
           /\ ocr_last' = IF ran.data = None
                             THEN OcrCall(img, ran.engine, "OCRError", NoOcrResult)
                          ELSE OcrCall(img, ran.engine, "returned", res)
           /\ cache' = cs.cache
           /\ hits' = cs.hits
           /\ misses' = cs.misses
           /\ useOrder' = cs.useOrder
           /\ evicted' = cs.evicted
           /\ got_entry' = cs.got_entry
           /\ got_none' = cs.got_none
           /\ cleared' = cs.cleared
    /\ UNCHANGED ocrOthers

OcrNext == \E img \in Crops : \E engine \in EngineOutcomes : OcrLocate(img, engine)

----------------------------------------------------------------------------
(* Disambiguation of one text stage, with the vision reply kept *)

NoReply == [err |-> FALSE, yes |-> FALSE, digits |-> <<>>]

NoPick == [best |-> None, result |-> not_found(<<>>)]

PickIdle ==
    /\ pick_in = [matches |-> <<>>, reply |-> NoReply]
    /\ pick_out = NoPick

\* locate, lines 306-320: the text stage found `matches`, the instruction is
\* non-empty, and the vision service answers with `reply`
Disambiguate(matches, reply) ==
    /\ pc = "idle"
    /\ "verifications" \in DOMAIN stats => stats["verifications"] < MaxStat
    /\ LET best == _pick_best_match(matches, reply, stats)
           res == OcrFound(matches)
       IN  /\ pick_in' = [matches |-> matches, reply |-> reply]
           /\ pick_out' = [best |-> best,
                           result |-> IF best = None THEN Reject(res)
                                      ELSE Confirm(Promote(res, best[1]))]
           /\ stats' = StatsAfterVerify(reply, stats)
    /\ UNCHANGED <<pc, args, result, all_suggestions, calls, ret, pickOthers>>

PickNext ==
    \/ \E matches \in MatchLists :
          \E reply \in VisionReplies(Len(matches)) : Disambiguate(matches, reply)
    \/ reset_stats

----------------------------------------------------------------------------
(* Specifications *)

BaseInit ==
    /\ cache = <<>>
    /\ hits = 0
    /\ misses = 0
    /\ useOrder = <<>>
    /\ evicted = FALSE
    /\ got_entry = 0
    /\ got_none = 0
    /\ cleared = FALSE
    /\ custom_regions = {}
    /\ window_regions = {}
    /\ stats = [k \in StatKeys |-> 0]
    /\ pc = "idle"
    /\ args = NoArgs
    /\ result = not_found(<<>>)
    /\ all_suggestions = <<>>
    /\ calls = <<>>
    /\ ret = NoRet
    /\ RetryInit
    /\ GeomInit

Init ==
    /\ BaseInit
    /\ IconIdle
    /\ BoxIdle
    /\ PickIdle
    /\ GridIdle
    /\ WsIdle
    /\ MatchIdle
    /\ OcrIdle

\* one locate call for each thing the vision service can do
IconInit ==
    /\ BaseInit
    /\ BoxIdle
    /\ ireq \in VisionOutcomes
    /\ iret = NoIconRet
    /\ PickIdle
    /\ GridIdle
    /\ WsIdle
    /\ MatchIdle
    /\ OcrIdle

\* one expand-and-clamp for each box, padding and image size
BoxInit ==
    /\ BaseInit
    /\ IconIdle
    /\ box_in \in BoxCalls
    /\ box_out = None
    /\ PickIdle
    /\ GridIdle
    /\ WsIdle
    /\ MatchIdle
    /\ OcrIdle

\* one locate call for each image, region, selector, keyword set and cell
GridInit ==
    /\ BaseInit
    /\ IconIdle
    /\ BoxIdle
    /\ PickIdle
    /\ grid_in \in GridCalls
    /\ grid_out = None
    /\ WsIdle
    /\ MatchIdle
    /\ OcrIdle

\* one locate call for each OCR data and fuzzy flag
MatchInit ==
    /\ BaseInit
    /\ IconIdle
    /\ BoxIdle
    /\ PickIdle
    /\ GridIdle
    /\ WsIdle
    /\ match_in \in MatchCalls
    /\ match_out = None
    /\ OcrIdle

\* the cache driven by arbitrary get / put / clear calls
CacheSpec == Init /\ [][CacheNext]_vars

\* the orchestrator and its region manager
HybridSpec == Init /\ [][HybridNext]_vars

\* the retry wrapper around a callable that returns or raises at will
RetrySpec == Init /\ [][RetryNext]_vars

\* the region manager driven by arbitrary add / remove / update / get calls
RegionSpec == Init /\ [][RegionNext]_vars

IconSpec == IconInit /\ [][IconNext]_vars

BoxSpec == BoxInit /\ [][BoxNext]_vars

\* locate calls on arbitrary crops with an engine that answers or fails
OcrSpec == Init /\ [][OcrNext]_vars

MatchSpec == MatchInit /\ [][MatchNext]_vars

\* one session of the task runner with an arbitrary client, planner and locator
WsSpec == Init /\ [][WsNext]_vars

GridSpec == GridInit /\ [][GridNext]_vars

\* vision checks of text-stage candidates, with resets of the statistics
PickSpec == Init /\ [][PickNext]_vars

----------------------------------------------------------------------------
(* Properties of HybridLocator.locate (checked under HybridSpec) *)

Finished == ret.kind # "none"

\* the sub-locator invocations of the running call, without the vision checks
StageCalls == SelectSeq(calls, LAMBDA c : c.stage # "pick")

LastCall == calls[Len(calls)]

HasCandidates(c) == c.stage = "ocr" /\ c.out.found /\ c.out.candidates >= 1

ExpectedStages ==
    IF args.is_icon THEN <<"icon">>
    ELSE IF args.region # "full" /\ args.region # "window"
         THEN <<"ocr", "ocr", "icon">>
         ELSE <<"ocr", "icon">>

C3_SecondAttemptUsesWindow ==
    pc # "idle" =>
        \A i \in 2..Len(StageCalls) :
            (StageCalls[i].stage = "ocr" /\ "window" \in window_regions)
                => StageCalls[i].region = "window"

\* C4: a returned result carries the suggestions of every stage attempted.
C4_SuggestionsOfEveryStage ==
    ret.kind = "returned" =>
        \A i \in 1..Len(calls) :
            Range(calls[i].out.suggestions) \subseteq Range(ret.result.suggestions)

\* C5: every result locate returns is tagged method = hybrid.
C5_MethodHybrid ==
    ret.kind = "returned" => ret.result.method = "hybrid"

C5_Witness ==
    /\ pc = "done"
    /\ ret.kind = "returned"
    /\ ret.result.found
    /\ Len(calls) = 2
    /\ LastCall.stage = "ocr"
    /\ LastCall.region = "full"

\* C6: results returned by the Text Locator, the Icon Locator and the
\* orchestrator have a bbox exactly when found is true.
C6_FoundIffBBox ==
    /\ ret.kind = "returned" => (ret.result.found <=> ret.result.bbox # None)
    /\ \A i \in 1..Len(calls) :
         (calls[i].stage \in {"ocr", "icon"} /\ ~calls[i].raised)
            => (calls[i].out.found <=> calls[i].out.boxed)

C6_Witness ==
    /\ pc = "done"
    /\ ret.kind = "returned"
    /\ ~ret.result.found
    /\ ret.result.bbox = None
    /\ \E i \in 1..Len(calls) :
         calls[i].stage = "pick" /\ ~calls[i].out.found /\ calls[i].out.boxed

\* C7: a not-found result returned after a sub-strategy failed with an
\* exception has a non-empty suggestions list.
C7_FailureHasDiagnostic ==
    (ret.kind = "returned" /\ ~ret.result.found /\ \E i \in 1..Len(calls) : calls[i].raised)
        => ret.result.suggestions # <<>>

\* C8: the vision check follows a text stage exactly when the stage returned
\* at least one candidate and the instruction is non-empty (one candidate
\* included); with an empty instruction the top-ranked match is returned.
C8_DisambiguationExactlyWhenNeeded ==
    \A i \in 1..Len(calls) :
        /\ (HasCandidates(calls[i]) /\ args.instruction # "") =>
              IF i = Len(calls) THEN pc \in {"pick1", "pick2"}
              ELSE calls[i + 1].stage = "pick"
        /\ calls[i].stage = "pick" =>
              /\ i > 1
              /\ HasCandidates(calls[i - 1])
              /\ args.instruction # ""
        /\ (HasCandidates(calls[i]) /\ args.instruction = "") =>
              /\ i = Len(calls)
              /\ ret.kind = "returned"
              /\ ret.result.found
              /\ Len(ret.result.all_matches) = calls[i].out.candidates
              /\ ret.result.bbox = Some(ret.result.all_matches[1].bbox)
              /\ ret.result.element = Some(ret.result.all_matches[1].text)
              /\ ret.result.confidence = ret.result.all_matches[1].confidence

C8_Witness ==
    /\ Len(calls) >= 2
    /\ LastCall.stage = "pick"
    /\ calls[Len(calls) - 1].out.candidates = 1
    /\ args.instruction # ""

----------------------------------------------------------------------------
(* Properties of OCRCache (checked under CacheSpec) *)

\* C9: a put of a new digest into a full cache evicts exactly one entry, the
\* one whose last use (get hit or put) is the oldest; every other entry stays.
\* Stated on steps: useOrder lists the cached digests by last use.
InsertsNewIntoFull ==
    /\ Len(cache) = max_size
    /\ Keys(cache') \ Keys(cache) # {}

C9_StrictLRU ==
    [][InsertsNewIntoFull => Keys(cache) \ Keys(cache') = {Head(useOrder)}]_vars

\* C10: the cache never holds more than max_size entries.
C10_SizeBounded == Len(cache) <= max_size

C10_Witness ==
    /\ evicted
    /\ Len(cache) = max_size

\* C11: since construction or the last clear, hits is the number of get calls
\* that returned an entry and misses the number that returned None (so put
\* changes neither); right after clear the cache is empty and both counters
\* are zero; stats reports size, max_size, hits, misses and
\* hit_rate = hits / (hits + misses), 0 when no get has occurred.
C11_CountersExact ==
    /\ hits = got_entry
    /\ misses = got_none
    /\ cleared => (cache = <<>> /\ hits = 0 /\ misses = 0)
    /\ CacheStats.size = Len(cache)
    /\ CacheStats.max_size = max_size
    /\ CacheStats.hits = got_entry
    /\ CacheStats.misses = got_none
    /\ CacheStats.hit_rate =
          IF got_entry + got_none = 0 THEN [num |-> 0, den |-> 1]
          ELSE [num |-> got_entry, den |-> got_entry + got_none]

C11_Witness ==
    /\ got_entry >= 1
    /\ got_none >= 1
    /\ evicted
    /\ CacheStats.hit_rate.den = 2

----------------------------------------------------------------------------
(* Properties of the retry wrapper (checked under RetrySpec) *)

RetryDone == rpc = "done"

AllRetryable(log) == \A i \in 1..Len(log) : log[i].kind = "retryable"

\* C12: when every attempt fails with a retryable error, the callable is
\* invoked exactly max_attempts times (never more while the loop runs) and the
\* wrapper raises RetryExhaustedError with attempts = max_attempts, operation =
\* the callable's name and last_error = the error of the final attempt.
C12_ExhaustedAfterMaxAttempts ==
    /\ Len(invoked) <= rcall.config.max_attempts
    /\ (RetryDone /\ AllRetryable(invoked)) =>
         /\ Len(invoked) = rcall.config.max_attempts
         /\ routcome.kind = "exhausted"
         /\ routcome.attempts = Some(rcall.config.max_attempts)
         /\ routcome.operation = Some(rcall.name)
         /\ invoked # <<>> => routcome.last_error = Some(invoked[Len(invoked)].what)

C12_Witness ==
    /\ RetryDone
    /\ rcall.via = "retry_call"
    /\ rcall.config.max_attempts = 3
    /\ Len(invoked) = 3
    /\ AllRetryable(invoked)
    /\ invoked[2].what # invoked[3].what
    /\ routcome.kind = "exhausted"

\* C13: a success on attempt k after k-1 retryable failures ends the wrapper
\* at once: it returns that value, the callable ran exactly k times, exactly
\* k-1 sleeps happened, and nothing is invoked after a returning invocation.
C13_ReturnsAtFirstSuccess ==
    /\ \A i \in 1..Len(invoked) :
          invoked[i].kind = "return" =>
             /\ i = Len(invoked)
             /\ RetryDone
             /\ routcome = Returned(invoked[i].what)
             /\ Len(sleeps) = i - 1
             /\ i <= rcall.config.max_attempts
    /\ routcome.kind = "returned" =>
          /\ invoked # <<>>
          /\ invoked[Len(invoked)].kind = "return"
          /\ AllRetryable(SubSeq(invoked, 1, Len(invoked) - 1))

C13_Witness ==
    /\ RetryDone
    /\ routcome.kind = "returned"
    /\ Len(invoked) = 2
    /\ rcall.config.max_attempts = 3
    /\ Len(sleeps) = 1

\* C14: for every RetryConfig the n-th sleep lasts
\* min(base_delay * exponential_base^(n-1), max_delay), so no sleep exceeds
\* max_delay, and no sleep follows the final failed attempt.
C14_BackoffDelays ==
    /\ \A n \in 1..Len(sleeps) :
          /\ sleeps[n] = Min(rcall.config.base_delay * Pow(rcall.config.exponential_base, n - 1),
                             rcall.config.max_delay)
          /\ sleeps[n] <= rcall.config.max_delay
    /\ routcome.kind = "exhausted" => Len(sleeps) = Max(Len(invoked) - 1, 0)

----------------------------------------------------------------------------
(* Properties of RegionManager (checked under RegionSpec) *)

C16_FailedDetectionClearsWindowMap ==
    last_detect = "failed" =>
        /\ rop.op = "update" => ~rop.ok
        /\ window_map = EmptyMap
        /\ (rop.op = "get" /\ rop.name \in {"sidebar", "main", "toolbar"}
               /\ rop.name \notin DOMAIN custom_map)
              => rop.region = Some(RegionTable[rop.name])

\* C17: every Region get returns satisfies 0 <= x1 < x2 <= 1 and
\* 0 <= y1 < y2 <= 1, and add never stores coordinates violating this.
C17_RegionsWithinUnitSquare ==
    /\ \A n \in DOMAIN custom_map : ValidCoords(custom_map[n])
    /\ (rop.op = "get" /\ rop.ok) => ValidCoords(rop.region[1])

\* C18: every name of the stable region vocabulary resolves in every state
\* of the manager: get returns a Region and does not raise.
StableVocabulary == {"full", "window", "sidebar", "main", "toolbar", "menu_bar", "dock"}

C18_VocabularyResolvable ==
    (rop.op = "get" /\ rop.name \in StableVocabulary) => rop.ok

----------------------------------------------------------------------------
(* Properties of IconLocator.locate (checked under IconSpec) *)

\* the reply is no JSON object with a usable cell: the call failed, the text
\* holds no object, or found is set with a cell that is no cell label
MalformedReply(reply) ==
    \/ reply.api = "raise"
    \/ reply.body = "prose"
    \/ reply.body = "json" /\ reply.top.t # "obj"
    \/ /\ reply.obj.found.truthy
       /\ reply.obj.cell.truthy
       /\ ~(reply.obj.cell.t = "str" /\ IsIntLiteral(Tail(reply.obj.cell.s)))

\* C19: locate never raises: whatever the vision service does, it returns a
\* LocatorResult, and for an API failure or a malformed reply that result is
\* not-found with a diagnostic suggestion.
C19_IconLocateNeverRaises ==
    iret.kind # "none" =>
        /\ iret.kind = "returned"
        /\ MalformedReply(ireq) =>
              /\ ~iret.result.found
              /\ iret.result.suggestions # <<>>

----------------------------------------------------------------------------
(* Properties of BoundingBox (checked under BoxSpec) *)

\* C20: for a box with x1 < x2 and y1 < y2, a padding >= 0 and positive
\* width and height at least the box's width and height,
\* box.expand(p).clamp(w, h) has x1 <= x2 and y1 <= y2.
C20_ExpandClampOrdered ==
    (/\ box_out # None
     /\ box_in.box.x1 < box_in.box.x2
     /\ box_in.box.y1 < box_in.box.y2
     /\ box_in.padding >= 0
     /\ box_in.width >= box_in.box.x2 - box_in.box.x1
     /\ box_in.height >= box_in.box.y2 - box_in.box.y1)
        => (box_out[1].x1 <= box_out[1].x2 /\ box_out[1].y1 <= box_out[1].y2)

----------------------------------------------------------------------------
(* Properties of the orchestrator's statistics (checked under HybridSpec) *)

\* between calls only reset_stats changes the counters
ResetStep == pc = "idle" /\ pc' = "idle" /\ stats' # stats

\* C21: after reset_stats every counter that stats exposed before
\* (ocr_attempts, ocr_successes, icon_attempts, icon_successes, fallbacks,
\* verifications) is present with value zero.
C21_ResetKeepsEveryCounter ==
    [][ResetStep => stats' = [k \in StatKeys |-> 0]]_vars

----------------------------------------------------------------------------
(* Properties of disambiguation (checked under PickSpec) *)

Picked == pick_in.matches # <<>>

\* C24: with exactly one candidate, a reply containing YES confirms it and it
\* becomes the result; a reply without YES rejects it and the text stage is
\* not-found with the context-mismatch suggestion; an error from the vision
\* service counts as YES and the original match is returned.
C24_SingleCandidateVerdict ==
    (Picked /\ Len(pick_in.matches) = 1) =>
        LET m == pick_in.matches[1]
            confirmed == /\ pick_out.best = Some(m)
                         /\ pick_out.result.found
                         /\ pick_out.result.bbox = Some(m.bbox)
                         /\ pick_out.result.element = Some(m.text)
        IN  /\ (~pick_in.reply.err /\ pick_in.reply.yes) => confirmed
            /\ (~pick_in.reply.err /\ ~pick_in.reply.yes) =>
                  /\ pick_out.best = None
                  /\ ~pick_out.result.found
                  /\ pick_out.result.suggestions = <<ContextMismatch>>
            /\ pick_in.reply.err => confirmed

\* C25: with several candidates, numbered top-to-bottom by y1, the first
\* digit of the reply decides: d in 1..count selects candidate d, 0 forces
\* not-found, and no digit or a first digit out of range selects the topmost
\* candidate; later digits are not consulted.
C25_FirstDigitDecides ==
    (Picked /\ Len(pick_in.matches) >= 2 /\ ~pick_in.reply.err) =>
        LET sorted == SortByY(pick_in.matches)
            digits == pick_in.reply.digits
        IN  pick_out.best =
              IF digits = <<>> THEN Some(sorted[1])
              ELSE IF digits[1] = 0 THEN None
              ELSE IF digits[1] <= Len(sorted) THEN Some(sorted[digits[1]])
              ELSE Some(sorted[1])


----------------------------------------------------------------------------
(* Properties of IconLocator.locate's geometry (checked under GridSpec) *)

GridDone == grid_out # None

\* the label names a cell of the GRID_COLS x GRID_ROWS grid
InGrid(chars) ==
    /\ CellOutcome(JStr(chars)) = "ok"
    /\ CellCol(chars) \in 0..(GRID_COLS - 1)
    /\ CellRow(chars) \in 0..(GRID_ROWS - 1)

\* C26: a reply with found = true whose cell label lies outside the grid makes
\* locate return found = false with a diagnostic suggestion; found = true is
\* returned only for cells inside the grid.
C26_OutOfGridCellRejected ==
    GridDone =>
        /\ grid_out[1].found => InGrid(grid_in.cell)
        /\ ~InGrid(grid_in.cell) => ~grid_out[1].found /\ grid_out[1].suggestions # <<>>

\* the inner 70% of cell (c, r) of a W x H image, truncated to integers
Inner70(c, r, W, H) ==
    [x1 |-> ((100 * c + 15) * W) \div (100 * GRID_COLS),
     y1 |-> ((100 * r + 15) * H) \div (100 * GRID_ROWS),
     x2 |-> ((100 * c + 85) * W) \div (100 * GRID_COLS),
     y2 |-> ((100 * r + 85) * H) \div (100 * GRID_ROWS)]

\* C27: for an in-grid cell the returned box is the inner 70% of the cell on
\* the downscaled image, scaled by the scale factors, moved by the offset of
\* the searched rectangle, and it lies within the original image with
\* 0 <= x1 < x2 <= width and 0 <= y1 < y2 <= height.
C27_InnerBoxWithinImage ==
    (GridDone /\ InGrid(grid_in.cell)) =>
        LET out == grid_out[1]
            img == out.img
            api == resize_for_api(img.w, img.h)
            inner == Inner70(CellCol(grid_in.cell), CellRow(grid_in.cell), api[1], api[2])
            box == out.bbox[1]
        IN  /\ out.found
            /\ box.x1 = (inner.x1 * img.w) \div api[1] + img.x
            /\ box.y1 = (inner.y1 * img.h) \div api[2] + img.y
            /\ box.x2 = (inner.x2 * img.w) \div api[1] + img.x
            /\ box.y2 = (inner.y2 * img.h) \div api[2] + img.y
            /\ 0 <= box.x1 /\ box.x1 < box.x2 /\ box.x2 <= grid_in.width
            /\ 0 <= box.y1 /\ box.y1 < box.y2 /\ box.y2 <= grid_in.height

\* the half or quadrant of a w x h image: cols is "left", "right" or "all",
\* rows is "top", "bottom" or "all"
PartOf(cols, rows, w, h) ==
    [x |-> IF cols = "right" THEN w \div 2 ELSE 0,
     y |-> IF rows = "bottom" THEN h \div 2 ELSE 0,
     w |-> CASE cols = "left" -> w \div 2 [] cols = "right" -> w - w \div 2 [] OTHER -> w,
     h |-> CASE rows = "top" -> h \div 2 [] rows = "bottom" -> h - h \div 2 [] OTHER -> h]

\* the part each selector and each keyword group stands for
PartNamed(name) ==
    CASE name \in {"1", "top-left"}      -> <<"left", "top">>
      [] name \in {"2", "top-right"}     -> <<"right", "top">>
      [] name = "3"                      -> <<"left", "bottom">>
      [] name = "4"                      -> <<"right", "bottom">>
      [] name \in {"top", "top-half"}    -> <<"all", "top">>
      [] name \in {"bottom", "bottom-half"} -> <<"all", "bottom">>
      [] name \in {"left", "left-half"}  -> <<"left", "all">>
      [] name = "right"                  -> <<"right", "all">>
      [] OTHER                           -> <<"all", "all">>

IsFirstMatch(text, i) ==
    /\ text \cap KeywordGroups[i].words # {}
    /\ \A j \in 1..(i - 1) : text \cap KeywordGroups[j].words = {}

\* the selector or keyword group that decides, by priority
Deciding(call) ==
    IF call.quad \in valid_quads THEN call.quad
    ELSE IF \E i \in 1..Len(KeywordGroups) : IsFirstMatch(call.text, i)
       THEN KeywordGroups[CHOOSE i \in 1..Len(KeywordGroups) : IsFirstMatch(call.text, i)].name
    ELSE "full"

\* C28: the searched rectangle is the part named by a valid quad selector
\* whatever the keywords are, else the part of the first matching keyword
\* group, else the whole crop; its top-left pixel is added to the region
\* offset, and the box of an in-grid cell lies at or after that offset.
C28_SubRectanglePriority ==
    GridDone =>
        LET crop == RegionCrop(grid_in)
            name == PartNamed(Deciding(grid_in))
            part == PartOf(name[1], name[2], crop.w, crop.h)
            img == grid_out[1].img
        IN  /\ img.x = crop.x + part.x
            /\ img.y = crop.y + part.y
            /\ img.w = part.w
            /\ img.h = part.h
            /\ InGrid(grid_in.cell) =>
                   /\ grid_out[1].bbox[1].x1 >= img.x
                   /\ grid_out[1].bbox[1].y1 >= img.y
                   /\ grid_out[1].bbox[1].x2 <= img.x + img.w
                   /\ grid_out[1].bbox[1].y2 <= img.y + img.h

\* a quadrant selector given together with keywords of another part, on a
\* cropped region, for an in-grid cell
C28_Witness ==
    /\ GridDone
    /\ grid_in.quad = "3"
    /\ grid_in.text = {"dock", "battery"}
    /\ grid_in.region = "center"
    /\ InGrid(grid_in.cell)
    /\ grid_out[1].img.x = grid_in.width \div 4
    /\ grid_out[1].img.y > grid_in.height \div 4


----------------------------------------------------------------------------
(* Properties of the /ws/run task runner (checked under WsSpec) *)

WsEnded == ws.pc \in {"returned", "raised"}

EventTypes == [i \in 1..Len(ws_events) |-> ws_events[i].type]

CountOf(type) == Cardinality({i \in 1..Len(ws_events) : ws_events[i].type = type})

NotStartTask == ws.first.object /\ ws.first.type # "start_task"

StartWithoutTask ==
    ws.first.object /\ ws.first.type = "start_task" /\ ws.first.data # "task"

\* C22: the first server event is "connected"; when the first client message
\* is not a start_task, or is a start_task without a non-empty task, the
\* session ends after exactly one "error" event (which names the missing task
\* in the second case) and no plan or step event is ever sent.
C22_BadStartEndsWithOneError ==
    /\ ws_events # <<>> => ws_events[1].type = "connected"
    /\ (ws.pc # "wait_start" /\ ws.pc # "disconnected" /\ (NotStartTask \/ StartWithoutTask)) =>
           /\ WsEnded
           /\ EventTypes = <<"connected", "error">>
           /\ StartWithoutTask => ws_events[2].error = "No task provided"

ReachedPlanReady == CountOf("plan_ready") > 0

\* C23: after step_result, step_done and step_skip advance the plan by one
\* step, step_retry leaves it where it is, cancel leaves the loop; a session
\* that reached plan_ready and ends without a disconnect has sent exactly one
\* task_complete, as its last event, with steps_completed = the number of
\* advances and success true exactly when every step was advanced.
C23_StepLoopProgress ==
    [][/\ (ws.pc = "wait_ack" /\ ws'.pc # "disconnected") =>
              /\ ws'.response \in {"step_done", "step_skip"} =>
                     ws'.pc = "loop" /\ ws'.current_step = ws.current_step + 1
              /\ ws'.response = "step_retry" =>
                     ws'.pc = "loop" /\ ws'.current_step = ws.current_step
              /\ ws'.response = "cancel" => ws'.pc = "returned"
       /\ (ReachedPlanReady' /\ ws'.pc \in {"returned", "raised"}) =>
              LET last == ws_events'[Len(ws_events')]
              IN  /\ Cardinality({i \in 1..Len(ws_events') :
                                    ws_events'[i].type = "task_complete"}) = 1
                  /\ last.type = "task_complete"
                  /\ last.steps_completed = ws'.advances
                  /\ last.success = (ws'.advances = ws'.total)]_vars


----------------------------------------------------------------------------
(* Properties of OCRLocator.locate's matching (checked under MatchSpec) *)

MatchDone == match_out # None

\* the fragments with text whose score reaches the threshold
Cleared ==
    {i \in 1..Len(match_in.data) :
        /\ match_in.data[i].rel # "blank"
        /\ MatchScore(match_in.data[i], match_in.fuzzy) >= ocr_fuzzy_threshold}

\* C30: all_matches holds exactly the candidates whose score is at least the
\* fuzzy threshold, each once, in non-increasing order of
\* weighted_score = score * confidence / 100; element, bbox and confidence
\* are those of the first entry; the result is found when at least one
\* candidate clears the threshold.
C30_FirstPassRanking ==
    MatchDone =>
        LET r == match_out[1]
            ms == r.all_matches
        IN  /\ Len(ms) = Cardinality(Cleared)
            /\ {ms[k].bbox : k \in 1..Len(ms)} = Cleared
            /\ \A k \in 1..Len(ms) :
                   LET f == match_in.data[ms[k].bbox]
                   IN  /\ ms[k].text = f.text
                       /\ ms[k].confidence = f.conf
                       /\ ms[k].weighted_score = MatchScore(f, match_in.fuzzy) * f.conf
            /\ \A j, k \in 1..Len(ms) :
                   j < k => ms[j].weighted_score >= ms[k].weighted_score
            /\ Cleared # {} =>
                   /\ r.found
                   /\ r.element = Some(ms[1].text)
                   /\ r.bbox = Some(ms[1].bbox)
                   /\ r.confidence = ms[1].confidence

\* three fragments: one below the threshold, then two above it with the
\* better weighted score last
C30_Witness ==
    /\ MatchDone
    /\ Len(match_in.data) = 3
    /\ Cleared = {2, 3}
    /\ match_out[1].found
    /\ match_out[1].bbox = Some(3)
    /\ match_out[1].all_matches[2].bbox = 2
    /\ match_out[1].all_matches[1].weighted_score > match_out[1].all_matches[2].weighted_score


----------------------------------------------------------------------------
(* Properties of OCRLocator.locate's caching (checked under OcrSpec) *)

OcrStep == ocr_count' = ocr_count + 1

\* C29: a locate whose OCR engine fails raises OCRError and stores nothing,
\* so a locate on a crop without an entry always invokes the engine; a locate
\* whose engine succeeds leaves an entry for the crop, and a locate on a crop
\* whose entry is still in the cache returns that entry's data without
\* invoking the engine.
C29_FailureNotCachedSuccessCached ==
    [][OcrStep =>
          LET h == _compute_hash(ocr_last'.img) IN
          /\ ocr_last'.engine = "failed" =>
                 /\ ocr_last'.kind = "OCRError"
                 /\ cache' = cache
                 /\ h \notin Keys(cache')
          /\ h \notin Keys(cache) => ocr_last'.engine # "not invoked"
          /\ ocr_last'.engine = "ran" =>
                 /\ ocr_last'.kind = "returned"
                 /\ h \in Keys(cache')
                 /\ ocr_last'.result = LocateOnData(cache'[KeyIndex(cache', h)].ocr_data, TRUE)
          /\ h \in Keys(cache) =>
                 /\ ocr_last'.engine = "not invoked"
                 /\ ocr_last'.kind = "returned"
                 /\ ocr_last'.result = LocateOnData(cache[KeyIndex(cache, h)].ocr_data, TRUE)
      ]_vars

\* a crop is served from the cache after an earlier call ran the engine on it
\* and another call failed
C29_Witness ==
    /\ ocr_count >= 3
    /\ ocr_last.engine = "not invoked"
    /\ ocr_last.kind = "returned"
    /\ ocr_last.result.found
    /\ misses >= 2
    /\ Len(cache) = 1

----------------------------------------------------------------------------
(* Disambiguation after reset_stats (checked under PickSpec) *)

\* a vision check made while the statistics are those reset_stats leaves
PickAfterReset ==
    /\ stats = [k \in ResetKeys |-> 0]
    /\ <<pick_in, pick_out>>' # <<pick_in, pick_out>>

\* C35: after reset_stats a locate still obeys the vision verdict: a reply
\* without YES for a single candidate, or a reply whose first digit is 0 for
\* several candidates, rejects the text match, and a reply whose first digit
\* names candidate d selects candidate d.
C35_VerdictObeyedAfterReset ==
    [][(PickAfterReset /\ ~pick_in'.reply.err) =>
          LET ms == pick_in'.matches
              digits == pick_in'.reply.digits
              sorted == SortByY(ms)
          IN  /\ (Len(ms) = 1 /\ ~pick_in'.reply.yes) =>
                     pick_out'.best = None /\ ~pick_out'.result.found
              /\ (Len(ms) >= 2 /\ digits # <<>> /\ digits[1] = 0) =>
                     pick_out'.best = None /\ ~pick_out'.result.found
              /\ (Len(ms) >= 2 /\ digits # <<>> /\ digits[1] \in 1..Len(ms)) =>
                     pick_out'.best = Some(sorted[digits[1]])
      ]_vars

----------------------------------------------------------------------------
(* OCRCache.put on a cached digest (checked under CacheSpec) *)

\* a put call: the only call that leaves both counters alone and is not clear
PutOfCachedDigest ==
    /\ hits' = hits
    /\ misses' = misses
    /\ ~cleared'
    /\ useOrder' # <<>>
    /\ useOrder'[Len(useOrder')] \in Keys(cache)

\* C36: put for an image whose digest is already cached replaces that entry
\* without evicting any other entry and without changing the number of
\* entries, also when the cache holds max_size entries.
C36_PutOfCachedDigestEvictsNothing ==
    [][PutOfCachedDigest => Keys(cache') = Keys(cache) /\ Len(cache') = Len(cache)]_vars

----------------------------------------------------------------------------
(* Errors outside retry_on (checked under RetrySpec) *)

\* C37: an exception that does not match retry_on leaves the wrapper on the
\* attempt where it occurs: it is the last invocation, no sleep follows it
\* (only the sleeps after the earlier retryable failures happened), and the
\* caller receives that exception itself, not a RetryExhaustedError.
C37_OtherErrorPropagatesAtOnce ==
    /\ \A i \in 1..Len(invoked) :
          invoked[i].kind = "other" =>
             /\ i = Len(invoked)
             /\ RetryDone
             /\ routcome.kind = "propagated"
             /\ routcome.last_error = Some(invoked[i].what)
             /\ routcome.operation = None /\ routcome.attempts = None
             /\ Len(sleeps) = i - 1
    /\ routcome.kind = "propagated" =>
          /\ invoked # <<>>
          /\ invoked[Len(invoked)].kind = "other"

C37_Witness ==
    /\ RetryDone
    /\ rcall.config.max_attempts = 3
    /\ Len(invoked) = 2
    /\ invoked[1].kind = "retryable"
    /\ invoked[2].kind = "other"
    /\ Len(sleeps) = 1
    /\ routcome.kind = "propagated"

----------------------------------------------------------------------------
(* Step numbers of the /ws/run task runner (checked under WsSpec) *)

\* C39: every step_started event carries a step_number between 1 and
\* total_steps that is the number of the plan step being run (the plan's
\* current step, counted from 1), so a step that is run again after
\* step_retry, or after a step_error that was neither skipped nor cancelled,
\* is announced with the same step_number.
C39_StepNumberIsThePlanStep ==
    [][\A i \in (Len(ws_events) + 1)..Len(ws_events') :
          ws_events'[i].type = "step_started" =>
             /\ ws_events'[i].step_number = ws.current_step + 1
             /\ ws_events'[i].step_number \in 1..ws.total]_vars

----------------------------------------------------------------------------
(* The fallbacks counter (checked under HybridSpec) *)

IconStageStep == pc = "icon" /\ pc' # "icon"

\* C40: fallbacks counts the locate calls whose icon stage was entered after
\* a text stage had been attempted without a confirmed match: entering the
\* icon stage adds one to it in such a call, leaves it unchanged in a call
\* with is_icon true (no text stage is attempted there), and no other step
\* of locate changes it.
C40_FallbacksCountsTextFailures ==
    [][IF IconStageStep
          THEN stats'["fallbacks"] =
                  stats["fallbacks"] + (IF args.is_icon \/ calls = <<>> THEN 0 ELSE 1)
          ELSE stats'["fallbacks"] \in {stats["fallbacks"], 0}]_vars

----------------------------------------------------------------------------
(* What the icon stage receives (checked under HybridSpec) *)

\* C38: when locate reaches the icon stage, IconLocator.locate receives the
\* instruction and the quad that the caller passed to HybridLocator.locate.
C38_IconStageReceivesInstructionAndQuad ==
    \A i \in 1..Len(calls) :
       calls[i].stage = "icon" =>
          /\ calls[i].received.instruction = args.instruction
          /\ calls[i].received.quad = args.quad

----------------------------------------------------------------------------
(* Ranking of the match kinds (checked under MatchSpec) *)

\* the kind of match behind an entry of all_matches: 1 = equal up to letter
\* case, 2 = the text contains the target, 3 = similarity only
MatchKind(data, m) ==
    CASE data[m.bbox].rel = "equal" -> 1
      [] data[m.bbox].rel = "contains" -> 2
      [] data[m.bbox].rel = "other" -> 3
      [] OTHER -> 0

\* C31: among the matches of one locate call that have the same confidence,
\* an exact case-insensitive match is ranked before a candidate that contains
\* the target, and that one before every candidate matched by similarity only.
C31_ExactThenSubstringThenFuzzy ==
    match_out # None =>
       LET ms == match_out[1].all_matches IN
       \A i, j \in 1..Len(ms) :
          (/\ ms[i].confidence = ms[j].confidence
           /\ MatchKind(match_in.data, ms[i]) # 0
           /\ MatchKind(match_in.data, ms[j]) # 0
           /\ MatchKind(match_in.data, ms[i]) < MatchKind(match_in.data, ms[j]))
             => i < j

----------------------------------------------------------------------------
(* OCRLocator._fuzzy_match: difflib.SequenceMatcher(None, a, b).ratio() *)

MaxChars == 4

Letters == {"a", "b", "A"}

Strings == SeqsUpTo(Letters, MaxChars)

\* str.lower, letter by letter
lower(s) ==
    [k \in 1..Len(s) |->
        IF s[k] \in Range(UpperLetters) THEN LowerLetters[IndexIn(UpperLetters, s[k])]
        ELSE s[k]]

\* a[i .. i+k-1] = b[j .. j+k-1]
IsBlock(a, b, i, j, k) == \A d \in 0..(k - 1) : a[i + d] = b[j + d]

\* the sizes of the common blocks inside a[alo..ahi] and b[blo..bhi]
BlockSizes(a, b, alo, ahi, blo, bhi) ==
    {k \in 1..Min(ahi - alo + 1, bhi - blo + 1) :
        \E i \in alo..(ahi - k + 1), j \in blo..(bhi - k + 1) : IsBlock(a, b, i, j, k)}

SetMax(S) == CHOOSE x \in S : \A y \in S : y <= x

SetMin(S) == CHOOSE x \in S : \A y \in S : x <= y

\* SequenceMatcher.find_longest_match without junk: a longest common block,
\* the one starting earliest in a and, among those, earliest in b
find_longest_match(a, b, alo, ahi, blo, bhi) ==
    LET sizes == BlockSizes(a, b, alo, ahi, blo, bhi) IN
    IF sizes = {} THEN [i |-> alo, j |-> blo, size |-> 0]
    ELSE LET k == SetMax(sizes)
             i == SetMin({x \in alo..(ahi - k + 1) :
                            \E y \in blo..(bhi - k + 1) : IsBlock(a, b, x, y, k)})
             j == SetMin({y \in blo..(bhi - k + 1) : IsBlock(a, b, i, y, k)})
         IN  [i |-> i, j |-> j, size |-> k]

\* SequenceMatcher.get_matching_blocks: the longest block, then the same to
\* its left and to its right; the sum of the block sizes
RECURSIVE get_matching_blocks(_, _, _, _, _, _)
get_matching_blocks(a, b, alo, ahi, blo, bhi) ==
    IF alo > ahi \/ blo > bhi THEN 0
    ELSE LET m == find_longest_match(a, b, alo, ahi, blo, bhi) IN
         IF m.size = 0 THEN 0
         ELSE m.size
              + get_matching_blocks(a, b, alo, m.i - 1, blo, m.j - 1)
              + get_matching_blocks(a, b, m.i + m.size, ahi, m.j + m.size, bhi)

\* SequenceMatcher.ratio: 2.0 * matches / length as the fraction num / den,
\* and 1.0 for two empty strings
ratio(a, b) ==
    IF Len(a) + Len(b) = 0 THEN [num |-> 1, den |-> 1]
    ELSE [num |-> 2 * get_matching_blocks(a, b, 1, Len(a), 1, Len(b)),
          den |-> Len(a) + Len(b)]

\* SequenceMatcher(None, target.lower(), text.lower()).ratio()
_fuzzy_match(target, text) == ratio(lower(target), lower(text))

FuzzyCalls == [target : Strings, text : Strings]

\* one _fuzzy_match call for each pair of strings
FuzzyInit ==
    /\ BaseInit
    /\ IconIdle
    /\ BoxIdle
    /\ PickIdle
    /\ GridIdle
    /\ WsIdle
    /\ OcrIdle
    /\ match_in \in FuzzyCalls
    /\ match_out = None

FuzzyMatch ==
    /\ match_out = None
    /\ match_out' = Some(_fuzzy_match(match_in.target, match_in.text))
    /\ UNCHANGED <<match_in, matchOthers>>

FuzzyNext == FuzzyMatch

FuzzySpec == FuzzyInit /\ [][FuzzyNext]_vars

\* C34: _fuzzy_match is symmetric and bounded: the score of (a, b) is the
\* score of (b, a), it lies between 0 and 1, and two strings that are equal
\* up to letter case score exactly 1.
C34_FuzzySymmetricAndBounded ==
    match_out # None =>
       LET score == match_out[1] IN
       /\ score = _fuzzy_match(match_in.text, match_in.target)
       /\ 0 <= score.num /\ score.num <= score.den
       /\ lower(match_in.target) = lower(match_in.text) => score.num = score.den

----------------------------------------------------------------------------
(* OCRLocator._build_phrases *)

MaxLine == 4

MaxTargetWords == 3

\* the characters of a Python string
Chars(s) ==
    CASE s = "Open" -> <<"O", "p", "e", "n">>
      [] s = "Folder" -> <<"F", "o", "l", "d", "e", "r">>
      [] s = "Folders" -> <<"F", "o", "l", "d", "e", "r", "s">>
      [] s = "a" -> <<"a">>
      [] s = " " -> <<" ">>

\* one entry of pytesseract's image_to_data dictionary
Word(text, block_num, line_num, left, top, width, height, conf) ==
    [text |-> Chars(text), block_num |-> block_num, line_num |-> line_num,
     left |-> left, top |-> top, width |-> width, height |-> height, conf |-> conf]

\* words of two lines of block 1 and of line 1 of block 2, and white space
\* (which Tesseract reports with confidence -1)
Words ==
    {Word("Open", 1, 1, 0, 1, 2, 1, 95), Word("Folder", 1, 1, 3, 0, 3, 2, 80),
     Word("a", 1, 1, 7, 1, 1, 1, 96), Word("Folder", 1, 2, 0, 3, 3, 1, 91),
     Word("a", 2, 1, 1, 6, 1, 1, 96), Word(" ", 1, 1, 2, 0, 1, 1, -1)}

Offsets == {<<0, 0>>, <<5, 7>>}

\* `not text.strip()`
IsBlank(text) == \A k \in 1..Len(text) : text[k] = " "

LineKey(w) == <<w.block_num, w.line_num>>

\* the indices lines[key] collects, in data order
LineIndices(data, key) ==
    SelectSeq([i \in 1..Len(data) |-> i],
              LAMBDA i : ~IsBlank(data[i].text) /\ LineKey(data[i]) = key)

\* the keys of `lines` in insertion order
RECURSIVE LineKeys(_, _)
LineKeys(data, n) ==
    IF n = 0 THEN <<>>
    ELSE LET before == LineKeys(data, n - 1) IN
         IF IsBlank(data[n].text) \/ LineKey(data[n]) \in Range(before) THEN before
         ELSE Append(before, LineKey(data[n]))

\* line_indices.sort(key=left): stable, leftmost first
RECURSIVE SortByLeft(_, _)
SortByLeft(data, indices) ==
    IF Len(indices) <= 1 THEN indices
    ELSE LET rest == SortByLeft(data, SubSeq(indices, 1, Len(indices) - 1))
             x == indices[Len(indices)]
             n == Cardinality({i \in 1..Len(rest) : data[rest[i]].left <= data[x].left})
         IN  SubSeq(rest, 1, n) \o <<x>> \o SubSeq(rest, n + 1, Len(rest))

\* " ".join(texts)
RECURSIVE Join(_)
Join(texts) ==
    IF texts = <<>> THEN <<>>
    ELSE IF Len(texts) = 1 THEN texts[1]
    ELSE texts[1] \o <<" ">> \o Join(Tail(texts))

RECURSIVE SumSeq(_)
SumSeq(s) == IF s = <<>> THEN 0 ELSE Head(s) + SumSeq(Tail(s))

\* the phrase dict built from the fragments at `indices`
Phrase(data, offset, indices) ==
    LET I == Range(indices) IN
    [text |-> Join([k \in 1..Len(indices) |-> data[indices[k]].text]),
     bbox |-> BoundingBox(SetMin({data[i].left : i \in I}) + offset[1],
                          SetMin({data[i].top : i \in I}) + offset[2],
                          SetMax({data[i].left + data[i].width : i \in I}) + offset[1],
                          SetMax({data[i].top + data[i].height : i \in I}) + offset[2]),
     confidence |-> SumSeq([k \in 1..Len(indices) |-> data[indices[k]].conf])
                       \div Len(indices),
     word_count |-> Len(indices)]

RunLengthsOneShort(max_words, n, start) == 1..Min(max_words - 1, n - start + 1)

\* range(1, min(max_words + 1, len(line_indices) - start + 1)), start from 1
RunLengths(max_words, n, start) == 1..Min(max_words, n - start + 1)

\* the two loops over one line: every start, every length
RECURSIVE LinePhrases(_, _, _, _, _, _)
LinePhrases(data, offset, max_words, line, start, length) ==
    IF start > Len(line) THEN <<>>
    ELSE IF length \notin RunLengths(max_words, Len(line), start)
       THEN LinePhrases(data, offset, max_words, line, start + 1, 1)
    ELSE <<Phrase(data, offset, SubSeq(line, start, start + length - 1))>>
         \o LinePhrases(data, offset, max_words, line, start, length + 1)

RECURSIVE PhrasesOfLines(_, _, _, _)
PhrasesOfLines(data, offset, max_words, keys) ==
    IF keys = <<>> THEN <<>>
    ELSE LinePhrases(data, offset, max_words,
                     SortByLeft(data, LineIndices(data, Head(keys))), 1, 1)
         \o PhrasesOfLines(data, offset, max_words, Tail(keys))

_build_phrases(data, offset, max_words) ==
    PhrasesOfLines(data, offset, max_words, LineKeys(data, Len(data)))

\* target_word_count of a target of several words
TargetWordCounts == 2..MaxTargetWords

PhraseCalls ==
    [data : SeqsUpTo(Words, MaxLine), offset : Offsets,
     target_word_count : TargetWordCounts]

\* one _build_phrases call for each OCR data, crop offset and target length
PhraseInit ==
    /\ BaseInit
    /\ IconIdle
    /\ BoxIdle
    /\ PickIdle
    /\ GridIdle
    /\ WsIdle
    /\ OcrIdle
    /\ match_in \in PhraseCalls
    /\ match_out = None

\* `candidates = self._build_phrases(data, offset, max_words=target_word_count + 1)`
BuildPhrases ==
    /\ match_out = None
    /\ match_out' = Some(_build_phrases(match_in.data, match_in.offset,
                                        match_in.target_word_count + 1))
    /\ UNCHANGED <<match_in, matchOthers>>

PhraseNext == BuildPhrases

PhraseSpec == PhraseInit /\ [][PhraseNext]_vars

----------------------------------------------------------------------------
(* Properties of OCRLocator._build_phrases (checked under PhraseSpec) *)

\* fragment i stands left of fragment j (data order decides between equal
\* left edges)
LeftOf(data, i, j) ==
    data[i].left < data[j].left \/ (data[i].left = data[j].left /\ i < j)

NonBlank(data) == {i \in 1..Len(data) : ~IsBlank(data[i].text)}

\* the sets of fragments that form a contiguous run of at most n fragments
\* of one (block, line) group
Runs(data, n) ==
    {I \in SUBSET NonBlank(data) :
        /\ I # {}
        /\ Cardinality(I) <= n
        /\ \A i, j \in I : LineKey(data[i]) = LineKey(data[j])
        /\ \A g \in NonBlank(data) \ I :
              \A i, j \in I :
                 LineKey(data[g]) = LineKey(data[i]) =>
                    ~(LeftOf(data, i, g) /\ LeftOf(data, g, j))}

LeftToRight(data, I) ==
    CHOOSE s \in Perms(I) : \A a, b \in 1..Len(s) : a < b => LeftOf(data, s[a], s[b])

\* candidate p is the phrase of run I
IsPhraseOf(p, data, offset, I) ==
    LET order == LeftToRight(data, I)
        total == SumSeq([k \in 1..Len(order) |-> data[order[k]].conf])
    IN  /\ p.text = Join([k \in 1..Len(order) |-> data[order[k]].text])
        /\ p.word_count = Cardinality(I)
        /\ \A i \in I : /\ p.bbox.x1 <= data[i].left + offset[1]
                        /\ p.bbox.y1 <= data[i].top + offset[2]
                        /\ p.bbox.x2 >= data[i].left + data[i].width + offset[1]
                        /\ p.bbox.y2 >= data[i].top + data[i].height + offset[2]
        /\ \E i \in I : p.bbox.x1 = data[i].left + offset[1]
        /\ \E i \in I : p.bbox.y1 = data[i].top + offset[2]
        /\ \E i \in I : p.bbox.x2 = data[i].left + data[i].width + offset[1]
        /\ \E i \in I : p.bbox.y2 = data[i].top + data[i].height + offset[2]
        /\ p.confidence * Cardinality(I) <= total
        /\ total < (p.confidence + 1) * Cardinality(I)

\* C32: for a target of k > 1 words the phrase candidates are exactly the
\* contiguous runs of 1 to k+1 non-blank fragments of one (block, line)
\* group in left-to-right order: one candidate per run and none besides; a
\* candidate's text is the run joined by single spaces, its box the envelope
\* of the members moved by the crop offset, its confidence the floor of the
\* mean member confidence.
C32_PhrasesAreContiguousRuns ==
    match_out # None =>
       LET phrases == match_out[1]
           runs == Runs(match_in.data, match_in.target_word_count + 1)
       IN  /\ Len(phrases) = Cardinality(runs)
           /\ \A I \in runs :
                 \E k \in 1..Len(phrases) :
                    IsPhraseOf(phrases[k], match_in.data, match_in.offset, I)
           /\ \A k \in 1..Len(phrases) :
                 \E I \in runs :
                    IsPhraseOf(phrases[k], match_in.data, match_in.offset, I)

\* three words of one line given out of order, a blank between them and a
\* target of two words: six candidates, the longest of three words, whose
\* mean confidence 271 / 3 is rounded down
C32_Witness ==
    /\ match_out # None
    /\ match_in.target_word_count = 2
    /\ match_in.offset = <<5, 7>>
    /\ match_in.data = <<Word("a", 1, 1, 7, 1, 1, 1, 96), Word("Folder", 1, 1, 3, 0, 3, 2, 80),
                         Word("Open", 1, 1, 0, 1, 2, 1, 95), Word(" ", 1, 1, 2, 0, 1, 1, -1)>>
    /\ Len(match_out[1]) = 6
    /\ \E k \in 1..Len(match_out[1]) :
          /\ match_out[1][k].text = Join(<<Chars("Open"), Chars("Folder"), Chars("a")>>)
          /\ match_out[1][k].bbox = BoundingBox(5, 7, 13, 9)
          /\ match_out[1][k].confidence = 90

----------------------------------------------------------------------------
(* OCRLocator.locate on the OCR data of the crop, for any target *)

\* a float kept as the fraction num / den, den > 0
Fraction(num, den) == [num |-> num, den |-> den]

\* f >= g
FracGeq(f, g) == f.num * g.den >= g.num * f.den

\* str.split(): the maximal runs without white space
RECURSIVE Split(_)
Split(s) ==
    IF s = <<>> THEN <<>>
    ELSE IF Head(s) = " " THEN Split(Tail(s))
    ELSE LET n == IF \E k \in 1..Len(s) : s[k] = " "
                     THEN SetMin({k \in 1..Len(s) : s[k] = " "}) - 1
                  ELSE Len(s)
         IN  <<SubSeq(s, 1, n)>> \o Split(SubSeq(s, n + 1, Len(s)))

\* `needle in hay`
Contains(hay, needle) ==
    \E i \in 1..(Len(hay) - Len(needle) + 1) : SubSeq(hay, i, i + Len(needle) - 1) = needle

stop_words ==
    {<<"t", "h", "e">>, <<"a">>, <<"a", "n">>, <<"t", "o">>, <<"i", "n">>, <<"o", "n">>,
     <<"a", "t">>, <<"f", "o", "r">>, <<"o", "f">>, <<"a", "n", "d">>, <<"o", "r">>,
     <<"c", "l", "i", "c", "k">>, <<"t", "a", "p">>, <<"b", "u", "t", "t", "o", "n">>,
     <<"i", "c", "o", "n">>}

\* [w for w in target.lower().split() if w not in stop_words and len(w) >= 3]
target_words(target) ==
    SelectSeq(Split(lower(target)), LAMBDA w : w \notin stop_words /\ Len(w) >= 3)

\* lines 204-218: one candidate for every non-blank fragment
SingleCandidates(data, offset) ==
    LET keep == SelectSeq([i \in 1..Len(data) |-> i], LAMBDA i : ~IsBlank(data[i].text))
    IN  [k \in 1..Len(keep) |-> Phrase(data, offset, <<keep[k]>>)]

\* lines 200-218
CandidatesFor(data, offset, target) ==
    IF Len(Split(target)) > 1
       THEN _build_phrases(data, offset, Len(Split(target)) + 1)
    ELSE SingleCandidates(data, offset)

\* lines 226-240
PhraseScore(target, text, fuzzy) ==
    LET target_lower == lower(target)
        text_lower == lower(text)
    IN  IF target_lower = text_lower THEN Fraction(1, 1)
        ELSE IF Contains(text_lower, target_lower) THEN Fraction(95, 100)
        ELSE IF Contains(target_lower, text_lower) /\ Len(text_lower) >= 4
           THEN Fraction(85 * Len(text_lower), 100 * Len(target_lower))
        ELSE IF fuzzy THEN _fuzzy_match(target, text)
        ELSE Fraction(0, 1)

\* the dict appended to all_matches; weighted_score = score * (conf / 100)
ScoredMatch(cand, score) ==
    [text |-> cand.text, bbox |-> cand.bbox, confidence |-> cand.confidence,
     match_score |-> score,
     weighted_score |-> Fraction(score.num * cand.confidence, score.den * 100)]

\* lines 221-249
FirstPassOver(candidates, target, fuzzy) ==
    LET scored == [k \in 1..Len(candidates) |->
                      ScoredMatch(candidates[k],
                                  PhraseScore(target, candidates[k].text, fuzzy))]
    IN  SelectSeq(scored, LAMBDA m : FracGeq(m.match_score, Fraction(ocr_fuzzy_threshold, 1000)))

\* `word == text_lower or self._fuzzy_match(word, text_lower) >= 0.85`
WordMatches(word, text) ==
    word = lower(text) \/ FracGeq(_fuzzy_match(word, lower(text)), Fraction(85, 100))

\* lines 274-286: for every target word, every candidate that matches it
RECURSIVE SecondPass(_, _)
SecondPass(words, candidates) ==
    IF words = <<>> THEN <<>>
    ELSE LET hits_ == SelectSeq(candidates, LAMBDA c : WordMatches(Head(words), c.text))
         IN  [k \in 1..Len(hits_) |-> ScoredMatch(hits_[k], Fraction(75, 100))]
             \o SecondPass(Tail(words), candidates)

\* all_matches.sort(key=weighted_score, reverse=True): stable, best first
RECURSIVE SortByWeight(_)
SortByWeight(ms) ==
    IF Len(ms) <= 1 THEN ms
    ELSE LET rest == SortByWeight(SubSeq(ms, 1, Len(ms) - 1))
             m == ms[Len(ms)]
             n == Cardinality({i \in 1..Len(rest) :
                                 FracGeq(rest[i].weighted_score, m.weighted_score)})
         IN  SubSeq(rest, 1, n) \o <<m>> \o SubSeq(rest, n + 1, Len(rest))

\* stable descending sort of (text, score) pairs by score
RECURSIVE SortByScore(_)
SortByScore(ps) ==
    IF Len(ps) <= 1 THEN ps
    ELSE LET rest == SortByScore(SubSeq(ps, 1, Len(ps) - 1))
             p == ps[Len(ps)]
             n == Cardinality({i \in 1..Len(rest) : FracGeq(rest[i][2], p[2])})
         IN  SubSeq(rest, 1, n) \o <<p>> \o SubSeq(rest, n + 1, Len(rest))

\* _find_suggestions over the texts read from the crop: score above 0.3,
\* best first, at most 5
SuggestionsFor(target, data) ==
    LET texts == SelectSeq([i \in 1..Len(data) |-> data[i].text], LAMBDA t : ~IsBlank(t))
        pairs == [k \in 1..Len(texts) |-> <<texts[k], _fuzzy_match(target, texts[k])>>]
        best == SortByScore(SelectSeq(pairs, LAMBDA p : ~FracGeq(Fraction(3, 10), p[2])))
    IN  [k \in 1..Min(5, Len(best)) |-> best[k][1]]

FoundResult(all_matches) ==
    OcrResult(TRUE, Some(all_matches[1].text), Some(all_matches[1].bbox),
              all_matches[1].confidence, all_matches, <<>>)

\* locate from the candidates on
LocateText(data, offset, target, fuzzy) ==
    LET candidates == CandidatesFor(data, offset, target)
        first == SortByWeight(FirstPassOver(candidates, target, fuzzy))
        second == IF Len(Split(target)) > 1 /\ first = <<>>
                     THEN SortByWeight(SecondPass(target_words(target), candidates))
                  ELSE <<>>
    IN  IF first # <<>> THEN FoundResult(first)
        ELSE IF second # <<>> THEN FoundResult(second)
        ELSE OcrResult(FALSE, None, None, 0, <<>>, SuggestionsFor(target, data))

\* words of two lines of one block
LocateWords ==
    {Word("Open", 1, 1, 0, 1, 2, 1, 95), Word("Folder", 1, 1, 3, 0, 3, 2, 80),
     Word("a", 1, 1, 7, 1, 1, 1, 96), Word("Folder", 1, 2, 0, 3, 3, 1, 91),
     Word("Folders", 1, 2, 4, 3, 3, 1, 70)}

\* targets of two words, of three words with a stop word, and of one word
Targets ==
    {Join(<<Chars("Open"), Chars("Folder")>>),
     Join(<<Chars("Open"), Chars("a"), Chars("Folder")>>),
     Chars("Folder")}

LocateCalls ==
    [data : SeqsUpTo(LocateWords, MaxFragments), offset : {<<5, 7>>}, target : Targets,
     fuzzy : BOOLEAN]

\* one locate call for each OCR data and target
LocateInit ==
    /\ BaseInit
    /\ IconIdle
    /\ BoxIdle
    /\ PickIdle
    /\ GridIdle
    /\ WsIdle
    /\ OcrIdle
    /\ match_in \in LocateCalls
    /\ match_out = None

OcrLocateText ==
    /\ match_out = None
    /\ match_out' = Some(LocateText(match_in.data, match_in.offset, match_in.target,
                                    match_in.fuzzy))
    /\ UNCHANGED <<match_in, matchOthers>>

LocateNext == OcrLocateText

LocateSpec == LocateInit /\ [][LocateNext]_vars

----------------------------------------------------------------------------
(* Properties of the second pass of OCRLocator.locate (checked under LocateSpec) *)

\* the candidate is one OCR fragment with its own box
IsSingleFragment(m, data, offset) ==
    \E i \in NonBlank(data) : m.text = data[i].text /\ m.bbox = Phrase(data, offset, <<i>>).bbox

\* the entries of all_matches that the second pass made
FromSecondPass(ms) == {k \in 1..Len(ms) : ms[k].match_score = Fraction(75, 100)}

\* C33: the second pass runs only when no candidate cleared the threshold
\* and the target has more than one word; every match it makes is a single
\* OCR fragment that equals, or is at least 0.85 similar to, a content word
\* of the target, is scored 0.75, and the result is an accepted fragment of
\* the highest confidence.
C33_SecondPassAcceptsSingleFragments ==
    match_out # None =>
       LET res == match_out[1]
           ms == res.all_matches
           data == match_in.data
           first == FirstPassOver(CandidatesFor(data, match_in.offset, match_in.target),
                                  match_in.target, match_in.fuzzy)
       IN  FromSecondPass(ms) # {} =>
              /\ first = <<>>
              /\ Len(Split(match_in.target)) > 1
              /\ FromSecondPass(ms) = 1..Len(ms)
              /\ \A k \in 1..Len(ms) :
                    /\ IsSingleFragment(ms[k], data, match_in.offset)
                    /\ \E w \in Range(target_words(match_in.target)) :
                          WordMatches(w, ms[k].text)
                    /\ ms[k].confidence <= res.confidence
              /\ \E k \in 1..Len(ms) :
                    res.element = Some(ms[k].text) /\ res.bbox = Some(ms[k].bbox)

====
